---- MODULE Spec2Model ----
(***************************************************************************)
(* Model of plv8_type.cc : the converters between PostgreSQL datums and    *)
(* v8 values (scalars, arrays, records, json/jsonb, dates, timestamps).    *)
(*                                                                         *)
(* TLC integers are 32 bits wide, so the 64-bit integers and the IEEE-754  *)
(* doubles of the C++ code are modelled with exact arithmetic on sequences *)
(* of 15-bit limbs (section 1 to 3) ; a double is a dyadic rational        *)
(* man * 2^exp with man < 2^53, and every double operation rounds to       *)
(* nearest, ties to even, as the hardware does.                            *)
(***************************************************************************)
EXTENDS Integers, Sequences, FiniteSets, TLC

(***************************************************************************)
(* 1. Natural numbers of any size: little-endian sequences of limbs in     *)
(*    base 2^15 with no leading zero limb; zero is the empty sequence.     *)
(***************************************************************************)
LimbBits == 3 * 5
Base == 2 ^ LimbBits

Max(S) == CHOOSE m \in S : \A x \in S : x <= m
Min(a, b) == IF a < b THEN a ELSE b
Limb(a, i) == IF 1 <= i /\ i <= Len(a) THEN a[i] ELSE 0

\* the sequence f without its leading zero limbs
RECURSIVE NNorm(_)
NNorm(f) ==
    IF f = <<>> \/ f[Len(f)] # 0 THEN f ELSE NNorm(SubSeq(f, 1, Len(f) - 1))

\* 0 <= k < 2^31
NFromInt(k) == NNorm(<<k % Base, (k \div Base) % Base, k \div (Base * Base)>>)

NCmp(a, b) ==
    IF Len(a) # Len(b) THEN (IF Len(a) > Len(b) THEN 1 ELSE -1)
    ELSE IF a = b THEN 0
    ELSE IF \E i \in 1 .. Len(a) :
                a[i] > b[i] /\ \A h \in i + 1 .. Len(a) : a[h] = b[h]
         THEN 1 ELSE -1

NLess(a, b) == NCmp(a, b) < 0
NLeq(a, b) == NCmp(a, b) <= 0

\* schoolbook addition from limb i on, with the carry c into limb i
RECURSIVE NAddC(_, _, _, _)
NAddC(a, b, i, c) ==
    IF i > Len(a) /\ i > Len(b) THEN (IF c = 0 THEN <<>> ELSE <<c>>)
    ELSE <<(Limb(a, i) + Limb(b, i) + c) % Base>> \o
         NAddC(a, b, i + 1, (Limb(a, i) + Limb(b, i) + c) \div Base)

NAdd(a, b) == NAddC(a, b, 1, 0)

\* schoolbook subtraction from limb i on, with the borrow br out of limb i
RECURSIVE NSubB(_, _, _, _)
NSubB(a, b, i, br) ==
    IF i > Len(a) THEN <<>>
    ELSE <<(a[i] - Limb(b, i) - br + Base) % Base>> \o
         NSubB(a, b, i + 1, IF a[i] - Limb(b, i) - br < 0 THEN 1 ELSE 0)

\* a - b for a >= b
NSub(a, b) == NNorm(NSubB(a, b, 1, 0))

RECURSIVE NMulC(_, _, _, _)
NMulC(a, k, i, c) ==
    IF i > Len(a) THEN (IF c = 0 THEN <<>> ELSE <<c>>)
    ELSE <<(a[i] * k + c) % Base>> \o NMulC(a, k, i + 1, (a[i] * k + c) \div Base)

\* a * k for a small factor 0 <= k < 2^15
NMulSmall(a, k) == IF k = 0 THEN <<>> ELSE NMulC(a, k, 1, 0)

\* (a \div Base^(i-1)) mod k: the remainder long division carries into limb i-1
RECURSIVE NRemAt(_, _, _)
NRemAt(a, k, i) ==
    IF i > Len(a) THEN 0 ELSE (NRemAt(a, k, i + 1) * Base + a[i]) % k

\* floor(a / k) and a mod k for a small divisor 1 <= k < 2^15
NDivSmall(a, k) ==
    NNorm([i \in 1 .. Len(a) |-> (NRemAt(a, k, i + 1) * Base + a[i]) \div k])
NModSmall(a, k) == NRemAt(a, k, 1)

RECURSIVE NMulList(_, _)
NMulList(a, ks) ==
    IF ks = <<>> THEN a ELSE NMulList(NMulSmall(a, Head(ks)), Tail(ks))

\* floor(a / (k1 * k2 * ...)) and whether the division left a remainder
RECURSIVE NDivList(_, _, _)
NDivList(a, ks, st) ==
    IF ks = <<>> THEN [q |-> a, st |-> st]
    ELSE NDivList(NDivSmall(a, Head(ks)), Tail(ks),
                  st \/ NModSmall(a, Head(ks)) # 0)

\* a * p * Base^w for 1 <= p < 2^15
NShlLimbs(a, w, p) ==
    NNorm([i \in 1 .. Len(a) + w + 1 |->
              ((Limb(a, i - w) * p) % Base) + ((Limb(a, i - w - 1) * p) \div Base)])

\* a * 2^n
NShl(a, n) == NShlLimbs(a, n \div LimbBits, 2 ^ (n % LimbBits))

NPow2(n) ==
    [i \in 1 .. (n \div LimbBits) + 1 |->
        IF i <= n \div LimbBits THEN 0 ELSE 2 ^ (n % LimbBits)]

\* floor(a / (p * Base^w)) for p a power of two below 2^15
NShrLimbs(a, w, p) ==
    NNorm([i \in 1 .. Len(a) |->
              (Limb(a, i + w) \div p) + (Limb(a, i + w + 1) % p) * (Base \div p)])

\* floor(a / 2^n)
NShrQ(a, n) == NShrLimbs(a, n \div LimbBits, 2 ^ (n % LimbBits))

\* a mod 2^n
NLowBits(a, n) ==
    NNorm([i \in 1 .. Min(Len(a), (n \div LimbBits) + 1) |->
              IF i <= n \div LimbBits THEN a[i] ELSE a[i] % (2 ^ (n % LimbBits))])

\* floor(a / 2^n) and whether a one bit was shifted out
NShr(a, n, st) == [q |-> NShrQ(a, n), st |-> st \/ NLowBits(a, n) # <<>>]

\* the number of bits of a limb 1 <= x < 2^15
LimbBitLen(x) == CHOOSE k \in 1 .. LimbBits : 2 ^ (k - 1) <= x /\ x < 2 ^ k

\* the number of bits of a (0 for zero)
NBitLen(a) ==
    IF a = <<>> THEN 0 ELSE LimbBits * (Len(a) - 1) + LimbBitLen(a[Len(a)])

\* the number of zero bits below the lowest one bit of a # 0
LowBit(x) == CHOOSE k \in 0 .. LimbBits - 1 : x % (2 ^ (k + 1)) = 2 ^ k
LowLimb(a) == CHOOSE j \in 1 .. Len(a) : a[j] # 0 /\ \A h \in 1 .. j - 1 : a[h] = 0
NTrailingZeros(a) == LimbBits * (LowLimb(a) - 1) + LowBit(a[LowLimb(a)])

\* the decimal digits of a, most significant first ("0" for zero)
DigitChar(d) == SubSeq("0123456789", d + 1, d + 1)
Digits4(k) ==
    DigitChar(k \div 1000) \o DigitChar((k \div 100) % 10) \o
    DigitChar((k \div 10) % 10) \o DigitChar(k % 10)

RECURSIVE StripLeft(_)
StripLeft(str) ==
    IF Len(str) > 1 /\ SubSeq(str, 1, 1) = "0"
    THEN StripLeft(SubSeq(str, 2, Len(str))) ELSE str

RECURSIVE NDigits(_)
NDigits(a) ==
    IF Len(a) = 0 THEN ""
    ELSE NDigits(NDivSmall(a, 10000)) \o Digits4(NModSmall(a, 10000))

NToString(a) == IF a = <<>> THEN "0" ELSE StripLeft(NDigits(a))

\* 10^k as a list of small factors
Pow10List(k) ==
    [i \in 1 .. (k + 3) \div 4 |-> IF i <= k \div 4 THEN 10000 ELSE 10 ^ (k % 4)]

(***************************************************************************)
(* 2. Signed integers: a sign and a magnitude.  The fixed-width C integer  *)
(*    types are these numbers reduced modulo 2^w (two's complement).       *)
(***************************************************************************)
ZMk(neg, mag) == [neg |-> neg /\ mag # <<>>, mag |-> mag]
ZInt(k) == ZMk(k < 0, NFromInt(IF k < 0 THEN 0 - k ELSE k))
ZZero == [neg |-> FALSE, mag |-> <<>>]
ZNeg(z) == ZMk(~z.neg, z.mag)

\* x + y for x and y of opposite signs; le: |y| <= |x|
ZAddOpposite(x, y, le) ==
    ZMk(IF le THEN x.neg ELSE y.neg,
        NSub(IF le THEN x.mag ELSE y.mag, IF le THEN y.mag ELSE x.mag))

ZAdd(x, y) ==
    IF x.neg = y.neg THEN ZMk(x.neg, NAdd(x.mag, y.mag))
    ELSE ZAddOpposite(x, y, NLeq(y.mag, x.mag))

ZSub(x, y) == ZAdd(x, ZNeg(y))

ZCmp(x, y) ==
    IF x.neg # y.neg THEN (IF x.neg THEN -1 ELSE 1)
    ELSE NCmp(IF x.neg THEN y.mag ELSE x.mag, IF x.neg THEN x.mag ELSE y.mag)

ZLess(x, y) == ZCmp(x, y) < 0
ZLeq(x, y) == ZCmp(x, y) <= 0

\* z * (k1 * k2 * ...), the factors small and positive
ZMulList(z, ks) == ZMk(z.neg, NMulList(z.mag, ks))

\* C integer division: the quotient truncated toward zero
ZDivTrunc(z, ks) == ZMk(z.neg, NDivList(z.mag, ks, FALSE).q)

\* the floor of a negative quotient whose magnitude divided as d
ZFloorOf(neg, d) ==
    ZMk(neg, IF neg /\ d.st THEN NAdd(d.q, <<1>>) ELSE d.q)

\* floor(z / (k1 * k2 * ...))
ZDivFloor(z, ks) == ZFloorOf(z.neg, NDivList(z.mag, ks, FALSE))

ZToString(z) == (IF z.neg THEN "-" ELSE "") \o NToString(z.mag)

\* a signed integer below 2^31 in magnitude as a number TLC computes with
ZToInt(z) ==
    (IF z.neg THEN -1 ELSE 1) *
    (Limb(z.mag, 1) + Limb(z.mag, 2) * Base + Limb(z.mag, 3) * Base * Base)

IntToString(k) == ZToString(ZInt(k))

\* the residue r of a number of the given sign mod 2^w, in 0 .. 2^w - 1
NResidue(neg, r, w) == IF neg /\ r # <<>> THEN NSub(NPow2(w), r) ELSE r

\* z mod 2^w, in 0 .. 2^w - 1
ZModPow2(z, w) == NResidue(z.neg, NLowBits(z.mag, w), w)

\* the w-bit two's complement integer whose bits are r < 2^w
ZFromBits(r, w) ==
    ZMk(NLeq(NPow2(w - 1), r), IF NLeq(NPow2(w - 1), r) THEN NSub(NPow2(w), r) ELSE r)

\* the value of the w-bit two's complement integer holding z's low w bits
WrapSigned(z, w) == ZFromBits(ZModPow2(z, w), w)

WrapUnsigned(z, w) == ZMk(FALSE, ZModPow2(z, w))

InSigned(z, w) == NLess(z.mag, NPow2(w - 1)) \/ (z.neg /\ z.mag = NPow2(w - 1))

(***************************************************************************)
(* 3. IEEE-754 doubles: NaN, or the finite value (-1)^neg * man * 2^exp    *)
(*    with man odd (or zero) and man < 2^53.  Results are rounded to       *)
(*    nearest, ties to even.  The exponent range is never reached by the   *)
(*    magnitudes of this model, so overflow and subnormals are left out.   *)
(***************************************************************************)
DNaN == [cls |-> "nan", neg |-> FALSE, man |-> <<>>, exp |-> 0]
DZero == [cls |-> "fin", neg |-> FALSE, man |-> <<>>, exp |-> 0]
\* an infinity; the arithmetic below is never applied to one
DInf(neg) == [cls |-> "inf", neg |-> neg, man |-> <<>>, exp |-> 0]
DIsInf(x) == x.cls = "inf"

\* man * 2^exp for man # 0 with tz trailing zero bits
DOdd(neg, man, exp, tz) ==
    [cls |-> "fin", neg |-> neg, man |-> NShrQ(man, tz), exp |-> exp + tz]

DMk(neg, man, exp) ==
    IF man = <<>> THEN DZero ELSE DOdd(neg, man, exp, NTrailingZeros(man))

\* floor(s.q / 2) rounded to nearest, ties to even: the low bit of s.q is the
\* guard bit, s.st tells whether a nonzero part below it was dropped
NRoundHalf(s) ==
    NShrQ(IF s.q[1] % 2 = 1 /\ (s.st \/ (s.q[1] \div 2) % 2 = 1)
          THEN NAdd(s.q, <<1>>) ELSE s.q, 1)

\* m * 2^e (st: a nonzero part below m was already dropped) without its
\* drop lowest bits, rounded
DRoundAt(neg, m, e, st, drop) ==
    DMk(neg, IF drop <= 0 THEN m ELSE NRoundHalf(NShr(m, drop - 1, st)),
        IF drop <= 0 THEN e ELSE e + drop)

\* m * 2^e rounded to a mantissa of the given number of bits
DRoundBits(neg, m, e, st, bits) == DRoundAt(neg, m, e, st, NBitLen(m) - bits)

\* a double has 53 mantissa bits, a float 24
DRound(neg, m, e, st) == DRoundBits(neg, m, e, st, 53)
\* (float4) x
DToFloat4(x) == IF x.cls = "nan" THEN x ELSE DRoundBits(x.neg, x.man, x.exp, FALSE, 24)

DIsNaN(x) == x.cls = "nan"
DNegate(x) == [x EXCEPT !.neg = ~x.neg /\ x.man # <<>>]

\* (double) z
DFromZ(z) == DRound(z.neg, z.mag, 0, FALSE)

\* the exact sum s * 2^e as a double
DOfSum(s, e) == DRound(s.neg, s.mag, e, FALSE)

\* x + y for finite x and y, e the smaller of their exponents
DAddAt(x, y, e) ==
    DOfSum(ZAdd(ZMk(x.neg, NShl(x.man, x.exp - e)),
                ZMk(y.neg, NShl(y.man, y.exp - e))), e)

DAdd(x, y) ==
    IF DIsNaN(x) \/ DIsNaN(y) THEN DNaN ELSE DAddAt(x, y, Min(x.exp, y.exp))

DSub(x, y) == DAdd(x, DNegate(y))

\* x * (double)(k1 * k2 * ...), the product of the factors below 2^53
DMulList(x, ks) ==
    IF DIsNaN(x) THEN DNaN ELSE DRound(x.neg, NMulList(x.man, ks), x.exp, FALSE)

\* the quotient d (and whether it is inexact) times 2^e as a double
DOfQuot(neg, d, e) == DRound(neg, d.q, e, d.st)

\* n * 2^e / (k1 * k2 * ...) rounded to a double, every factor below 2^16
DQuot(neg, n, e, ks) ==
    IF n = <<>> THEN DZero
    ELSE DOfQuot(neg, NDivList(NShl(n, 64 + 17 * Len(ks)), ks, FALSE),
                 e - (64 + 17 * Len(ks)))

\* x / (double)(k1 * k2 * ...), the product of the factors below 2^53
DDivList(x, ks) ==
    IF DIsNaN(x) THEN DNaN ELSE DQuot(x.neg, x.man, x.exp, ks)

\* the integer part of a finite x (what a C cast to an integer type keeps)
DTrunc(x) ==
    ZMk(x.neg, IF x.exp >= 0 THEN NShl(x.man, x.exp) ELSE NShrQ(x.man, 0 - x.exp))

DIsInteger(x) == x.cls = "fin" /\ x.exp >= 0

\* modf: the integral part and the fractional part, both with x's sign
ModfIntegral(x) == DFromZ(DTrunc(x))
\* x minus its integral part, which is exact: the bits of x below the point
ModfFractional(x) ==
    IF x.exp >= 0 THEN DZero ELSE DMk(x.neg, NLowBits(x.man, 0 - x.exp), x.exp)

(***************************************************************************)
(* 4. The v8 side: dynamic values and the v8 API calls the converters use. *)
(***************************************************************************)
VUndefined == [kind |-> "Undefined"]
VNull == [kind |-> "Null"]
VBool(b) == [kind |-> "Boolean", b |-> b]
VNum(d) == [kind |-> "Number", d |-> d]
VInt(k) == VNum(DFromZ(ZInt(k)))
VBigInt(z) == [kind |-> "BigInt", z |-> z]
VStr(s) == [kind |-> "String", s |-> s]
VDate(d) == [kind |-> "Date", d |-> d]
\* v8::Date::New(time): the time value is clipped (ECMAScript TimeClip): NaN
\* beyond 8.64e15 ms, otherwise the integer part
DateNew(time) ==
    IF DIsNaN(time) \/ NLess(NMulList(<<864>>, Pow10List(13)), DTrunc(time).mag)
    THEN VDate(DNaN)
    ELSE VDate(DFromZ(DTrunc(time)))
VFunction == [kind |-> "Function"]
\* keys: the own property names in insertion order; vals: their values
VObj(keys, vals) == [kind |-> "Object", keys |-> keys, vals |-> vals]
VArr(elems) == [kind |-> "Array", elems |-> elems]
\* a typed array: element kind, the bytes of its buffer, internal field 0
VTyped(ext, bytes, internal) ==
    [kind |-> "TypedArray", ext |-> ext, bytes |-> bytes, internal |-> internal]

VArrayBuffer(bytes) == [kind |-> "ArrayBuffer", bytes |-> bytes]

IsUndefined(v) == v.kind = "Undefined"
IsNull(v) == v.kind = "Null"
IsBoolean(v) == v.kind = "Boolean"
IsNumber(v) == v.kind = "Number"
IsBigInt(v) == v.kind = "BigInt"
IsString(v) == v.kind = "String"
IsDate(v) == v.kind = "Date"
IsArray(v) == v.kind = "Array"
IsTypedArray(v) == v.kind = "TypedArray"
\* v8::Value::IsObject: every JS object, whatever its class
IsObject(v) ==
    v.kind \in {"Object", "Array", "Date", "TypedArray", "ArrayBuffer", "Function"}

\* v8::Value::IsInt32 / IsUint32: a Number holding an integer of that range
IsInt32(v) == IsNumber(v) /\ DIsInteger(v.d) /\ InSigned(DTrunc(v.d), 32)
IsUint32(v) ==
    IsNumber(v) /\ DIsInteger(v.d) /\ ~v.d.neg /\ NLess(DTrunc(v.d).mag, NPow2(32))

\* v8::Value::Int32Value / Uint32Value: ECMAScript ToInt32 / ToUint32
Int32Value(v) == IF DIsNaN(v.d) THEN ZZero ELSE WrapSigned(DTrunc(v.d), 32)
Uint32Value(v) == IF DIsNaN(v.d) THEN ZZero ELSE WrapUnsigned(DTrunc(v.d), 32)

\* v8::Value::IntegerValue: the integer part, saturated to the int64 range
Saturate(z, w) ==
    IF InSigned(z, w) THEN z
    ELSE ZMk(z.neg, IF z.neg THEN NPow2(w - 1) ELSE NSub(NPow2(w - 1), <<1>>))

IntegerValue(v) == IF DIsNaN(v.d) THEN ZZero ELSE Saturate(DTrunc(v.d), 64)

\* a BigInt read through a double: the nearest double's integer
Int64ValueThroughDouble(v) == WrapSigned(DTrunc(DFromZ(v.z)), 64)

\* v8::BigInt::Int64Value: the low 64 bits of the BigInt, as a signed integer
Int64Value(v) == WrapSigned(v.z, 64)

RECURSIVE StripZeros(_)
StripZeros(str) ==
    IF Len(str) > 0 /\ SubSeq(str, Len(str), Len(str)) = "0"
    THEN StripZeros(SubSeq(str, 1, Len(str) - 1)) ELSE str

\* 5^k as a list of factors below 2^15
RECURSIVE Pow5List(_)
Pow5List(k) ==
    IF k >= 6 THEN <<15625>> \o Pow5List(k - 6)
    ELSE IF k > 0 THEN <<5>> \o Pow5List(k - 1)
    ELSE <<>>

\* str with zeros before it, up to n characters
RECURSIVE PadZeros(_, _)
PadZeros(str, n) == IF Len(str) >= n THEN str ELSE PadZeros("0" \o str, n)

\* the digits of n / 10^k, k + 1 or more: a point stands before the last k
\* of them, and the zeros at the end go
PointedText(digits, k) ==
    SubSeq(digits, 1, Len(digits) - k) \o "." \o
    StripZeros(SubSeq(digits, Len(digits) - k + 1, Len(digits)))

\* the text of n / 10^k
DecimalText(n, k) == PointedText(PadZeros(NToString(n), k + 1), k)

\* Number.prototype.toString of a double m * 2^e: the exact decimal text,
\* which is the text JS prints for the integers below 10^21 and for the
\* short binary fractions (0.5, 2.5, 1.0000152587890625) this model uses
NumberToString(d) ==
    IF DIsNaN(d) THEN "NaN"
    ELSE IF DIsInf(d) THEN (IF d.neg THEN "-Infinity" ELSE "Infinity")
    ELSE IF d.exp >= 0 THEN ZToString(DTrunc(d))
    ELSE (IF d.neg THEN "-" ELSE "") \o
         DecimalText(NMulList(d.man, Pow5List(0 - d.exp)), 0 - d.exp)

RECURSIVE JoinComma(_, _)
RECURSIVE ToStringV8(_)
\* v8::Value::ToString (String::Utf8Value, CString): the JS string conversion
ToStringV8(v) ==
    CASE v.kind = "Undefined" -> "undefined"
      [] v.kind = "Null" -> "null"
      [] v.kind = "Boolean" -> IF v.b THEN "true" ELSE "false"
      [] v.kind = "Number" -> NumberToString(v.d)
      [] v.kind = "BigInt" -> ZToString(v.z)
      [] v.kind = "String" -> v.s
      [] v.kind = "Date" ->
            IF DIsNaN(v.d) THEN "Invalid Date"
            ELSE "Date(" \o ZToString(DTrunc(v.d)) \o ")"
      [] v.kind = "Object" -> "[object Object]"
      [] v.kind = "Array" -> JoinComma(v.elems, 1)
      [] v.kind = "TypedArray" -> "[object TypedArray]"
      [] v.kind = "ArrayBuffer" -> "[object ArrayBuffer]"
      [] v.kind = "Function" -> "function () { }"

JoinComma(elems, i) ==
    IF i > Len(elems) THEN ""
    ELSE (IF i > 1 THEN "," ELSE "") \o
         (IF elems[i].kind \in {"Undefined", "Null"} THEN ""
          ELSE ToStringV8(elems[i]))
         \o JoinComma(elems, i + 1)

\* the bytes of one element of each kind of typed array
ElementSize(ext) ==
    CASE ext \in {"kExternalByteArray", "kExternalUnsignedByteArray"} -> 1
      [] ext \in {"kExternalShortArray", "kExternalUnsignedShortArray"} -> 2
      [] ext \in {"kExternalIntArray", "kExternalUnsignedIntArray",
                  "kExternalFloatArray"} -> 4
      [] ext \in {"kExternalDoubleArray", "kExternalInt64Array"} -> 8

\* TypedArray::Length
TypedLength(v) == Len(v.bytes) \div ElementSize(v.ext)

\* the number whose little-endian bytes are given
RECURSIVE FromLE(_)
FromLE(bytes) ==
    IF bytes = <<>> THEN <<>>
    ELSE NAdd(NFromInt(Head(bytes)), NShl(FromLE(Tail(bytes)), 8))

\* the double with the IEEE-754 pattern n (p bits of precision, bias b, w bits)
DoubleOfFields(neg, field, frac, p, b) ==
    IF field = 2 * b + 1 THEN DNaN
    ELSE DMk(neg, IF field = 0 THEN frac ELSE NAdd(frac, NPow2(p - 1)),
             IF field = 0 THEN 2 - b - p ELSE field - b - (p - 1))

BitsToDouble(n, p, b, w) ==
    DoubleOfFields(NLeq(NPow2(w - 1), n),
                   ZToInt(ZMk(FALSE, NShrQ(NLowBits(n, w - 1), p - 1))),
                   NLowBits(n, p - 1), p, b)

\* the element at index i - 1 of a typed array
\* the value of an element whose w bytes hold the bit pattern n
ElementOfBits(ext, n, w) ==
    IF ext = "kExternalInt64Array" THEN VBigInt(WrapSigned(ZMk(FALSE, n), 64))
    ELSE VNum(IF ext \in {"kExternalFloatArray", "kExternalDoubleArray"}
              THEN BitsToDouble(n, IF w = 4 THEN 24 ELSE 53,
                                IF w = 4 THEN 127 ELSE 1023, 8 * w)
              ELSE DFromZ(IF ext \in {"kExternalByteArray", "kExternalShortArray",
                                      "kExternalIntArray"}
                          THEN WrapSigned(ZMk(FALSE, n), 8 * w) ELSE ZMk(FALSE, n)))

\* the bytes of the element at index i - 1, each of w bytes
ElementAt(bytes, i, w) == SubSeq(bytes, (i - 1) * w + 1, i * w)

TypedElement(v, i) ==
    ElementOfBits(v.ext, FromLE(ElementAt(v.bytes, i, ElementSize(v.ext))),
                  ElementSize(v.ext))

(***************************************************************************)
(* 5. The build: the preprocessor switches of plv8_type.cc, and what the   *)
(*    database does on the paths the code leaves to it.                    *)
(*      jsonb_direct     JSONB_DIRECT_CONVERSION                           *)
(*      bigint_graceful  BIGINT_GRACEFUL                                   *)
(*      check_overflow   CHECK_INTEGER_OVERFLOW                            *)
(*      int64_timestamp  HAVE_INT64_TIMESTAMP                              *)
(*      lookup_fails     lookup_rowtype_tupdesc raises an error            *)
(*      cast_ub          what a double-to-integer cast stores when the     *)
(*                       value does not fit (undefined behaviour in C)     *)
(*      empty_array      what construct_md_array builds from no element:   *)
(*                       the dimensionless empty array, or (older servers) *)
(*                       an array of one dimension of length 0             *)
(*      stack_smash      what a write behind a stack buffer does:          *)
(*                       nothing the program notices, or the abort of the  *)
(*                       stack protector (undefined behaviour in C)        *)
(*      numeric_infinity whether the server's numeric has infinities       *)
(*                       (version 14 on); an older server's float8_numeric *)
(*                       raises an error for an infinite double            *)
(***************************************************************************)
MkEnv(jd, bg, co, ts, lf, ub, ea, ss, ni) ==
    [jsonb_direct |-> jd, bigint_graceful |-> bg, check_overflow |-> co,
     int64_timestamp |-> ts, lookup_fails |-> lf, cast_ub |-> ub,
     empty_array |-> ea, stack_smash |-> ss, numeric_infinity |-> ni]

\* the default build: direct jsonb conversion, BigInt for int8, truncating
\* integer stores, microsecond timestamps
DefaultEnv ==
    MkEnv(TRUE, FALSE, FALSE, TRUE, FALSE, "min", "zero_dim", "silent", FALSE)

(***************************************************************************)
(* 6. Epoch conversions.  v8 holds a Date as a double of milliseconds      *)
(*    since 1970-01-01; PostgreSQL counts from 2000-01-01, timestamps in   *)
(*    microseconds (int64) or seconds (double), dates in days (int32).     *)
(***************************************************************************)
POSTGRES_EPOCH_JDATE == 2451545
UNIX_EPOCH_JDATE == 2440588

\* (POSTGRES_EPOCH_JDATE - UNIX_EPOCH_JDATE) * 86400000.0
EpochShift ==
    DMulList(DFromZ(ZInt(POSTGRES_EPOCH_JDATE - UNIX_EPOCH_JDATE)), <<864, 100, 1000>>)

\* USECS_PER_DAY = 86400000000 and SECS_PER_DAY = 86400, as factor lists
USECS_PER_DAY == <<864, 100, 1000, 1000>>
SECS_PER_DAY == <<864, 100>>

\* (int64) x and (int32) x for a double x.  A NaN or an out-of-range x is
\* undefined behaviour in C: the build stores the most negative integer (the
\* x86 "integer indefinite") or zero.
CastOf(nan, z, w, env) ==
    IF nan \/ ~InSigned(z, w)
    THEN (IF env.cast_ub = "min" THEN ZMk(TRUE, NPow2(w - 1)) ELSE ZZero)
    ELSE z

CastInt(x, w, env) == CastOf(DIsNaN(x), DTrunc(x), w, env)

\* a timestamp datum: int64 microseconds [rep "int8"] or double seconds
TimestampTzToEpochFloat(tm) == DAdd(DMulList(tm, <<1000>>), EpochShift)
TimestampTzToEpochInt64(tm) == DAdd(DDivList(DFromZ(tm), <<1000>>), EpochShift)

TimestampTzToEpoch(datum, env) ==
    IF env.int64_timestamp THEN TimestampTzToEpochInt64(datum.z)
    ELSE TimestampTzToEpochFloat(datum.d)

EpochToTimestampTzInt64(epoch, env) ==
    [rep |-> "int8",
     z |-> WrapSigned(ZMulList(CastInt(DSub(epoch, EpochShift), 64, env), <<1000>>), 64)]

EpochToTimestampTzFloat(epoch) ==
    [rep |-> "float8", d |-> DDivList(DSub(epoch, EpochShift), <<1000>>)]

EpochToTimestampTz(epoch, env) ==
    IF env.int64_timestamp THEN EpochToTimestampTzInt64(epoch, env)
    ELSE EpochToTimestampTzFloat(epoch)

\* the milliseconds in the given days
DaysEpoch(days, env) ==
    IF env.int64_timestamp THEN DDivList(DMulList(days, USECS_PER_DAY), <<1000>>)
    ELSE DMulList(DMulList(days, SECS_PER_DAY), <<1000>>)

DateToEpoch(datum, env) == DAdd(DaysEpoch(DFromZ(datum.z), env), EpochShift)

\* the days in e milliseconds
EpochDays(e, env) ==
    DDivList(IF env.int64_timestamp THEN DMulList(e, <<1000>>) ELSE DDivList(e, <<1000>>),
             IF env.int64_timestamp THEN USECS_PER_DAY ELSE SECS_PER_DAY)

EpochToDate(epoch, env) ==
    [rep |-> "int4", z |-> CastInt(EpochDays(DSub(epoch, EpochShift), env), 32, env)]

(***************************************************************************)
(* 7. The type catalog and the type descriptor plv8_type.                  *)
(*    A catalog row gives what the lsyscache lookups of plv8_fill_type     *)
(*    return: the category, the typtype, the name and the element type.    *)
(***************************************************************************)
ScalarTypids ==
    {"OIDOID", "BOOLOID", "INT2OID", "INT4OID", "INT8OID", "FLOAT4OID",
     "FLOAT8OID", "NUMERICOID", "DATEOID", "TIMESTAMPOID", "TIMESTAMPTZOID",
     "TEXTOID", "BYTEAOID", "JSONOID", "JSONBOID"}

\* the reserved domain names and the external array kind of each
ExternalArrayNames ==
    [plv8_int2array   |-> "kExternalShortArray",
     plv8_int4array   |-> "kExternalIntArray",
     plv8_float4array |-> "kExternalFloatArray",
     plv8_float8array |-> "kExternalDoubleArray",
     plv8_int8array   |-> "kExternalInt64Array"]

\* the array type each reserved domain is declared over, by its element type
ElementOfDomain ==
    [plv8_int2array   |-> "INT2OID",
     plv8_int4array   |-> "INT4OID",
     plv8_float4array |-> "FLOAT4OID",
     plv8_float8array |-> "FLOAT8OID",
     plv8_int8array   |-> "INT8OID"]

ArrayTypids == {"INT4ARRAYOID", "INT8ARRAYOID", "TEXTARRAYOID", "BOOLARRAYOID"}
ElementOf ==
    [INT4ARRAYOID |-> "INT4OID", INT8ARRAYOID |-> "INT8OID",
     TEXTARRAYOID |-> "TEXTOID", BOOLARRAYOID |-> "BOOLOID"]

CatalogRow(typid) ==
    IF typid \in ScalarTypids
    THEN [category |-> "OTHER", typtype |-> "b", typname |-> typid, elem |-> "InvalidOid"]
    ELSE IF typid \in ArrayTypids
    THEN [category |-> "ARRAY", typtype |-> "b", typname |-> typid, elem |-> ElementOf[typid]]
    ELSE IF typid \in DOMAIN ExternalArrayNames
    THEN [category |-> "ARRAY", typtype |-> "d", typname |-> typid, elem |-> "InvalidOid"]
    ELSE IF typid = "rowtype"
    THEN [category |-> "COMPOSITE", typtype |-> "c", typname |-> typid, elem |-> "InvalidOid"]
    ELSE IF typid = "rowtype_array"
    THEN [category |-> "ARRAY", typtype |-> "b", typname |-> typid, elem |-> "rowtype"]
    ELSE \* "posint": a domain over int4 with no reserved name
         [category |-> "OTHER", typtype |-> "d", typname |-> typid, elem |-> "InvalidOid"]

Typids ==
    ScalarTypids \cup ArrayTypids \cup DOMAIN ExternalArrayNames \cup
    {"rowtype", "rowtype_array", "posint"}

\* a plv8_type as the callers allocate it: zero-filled.  layout stands for
\* len, byval and align: it names the type whose layout they are.
ZeroType ==
    [typid |-> "InvalidOid", category |-> "", is_composite |-> FALSE,
     layout |-> "none", ext_array |-> "none"]

\* the fields every call sets from the type's catalog row
FillHeader(type, typid, row) ==
    [type EXCEPT !.typid = typid, !.category = row.category,
                 !.is_composite = (row.category = "COMPOSITE"),
                 !.layout = typid]

\* a domain with a reserved name is an external array type
FillDomain(type, row) ==
    IF row.typtype = "d" /\ row.typname \in DOMAIN ExternalArrayNames
    THEN [type EXCEPT !.ext_array = ExternalArrayNames[row.typname]]
    ELSE type

\* a domain whose ext_array is set is done; any other array type is
\* described by its element type
FillElement(type, row) ==
    IF row.typtype = "d" /\ type.ext_array # "none" THEN type
    ELSE IF type.category = "ARRAY"
    THEN [type EXCEPT !.typid = row.elem,
                      !.is_composite = (CatalogRow(row.elem).category = "COMPOSITE"),
                      !.layout = row.elem]
    ELSE type

FillFromRow(type, typid, row) ==
    FillElement(FillDomain(FillHeader(type, typid, row), row), row)

plv8_fill_type(type, typid) == FillFromRow(type, typid, CatalogRow(typid))

(***************************************************************************)
(* 8. The database's numeric type, as far as the converters use it: a      *)
(*    decimal number (-1)^neg * coef * 10^e10, coef without trailing zero  *)
(*    digit, or NaN.  float8_numeric prints the double with DBL_DIG = 15   *)
(*    significant digits ("%.15g") and reads that text back as a numeric;  *)
(*    numeric_float8 prints the numeric and reads it with strtod.          *)
(***************************************************************************)
NumericNaN == [cls |-> "nan", neg |-> FALSE, coef |-> <<>>, e10 |-> 0]
\* an infinite numeric, which servers from version 14 on have; an older
\* server raises "cannot convert infinity to numeric" where one would arise
NumericInf(neg) == [cls |-> "inf", neg |-> neg, coef |-> <<>>, e10 |-> 0]

RECURSIVE NumMk(_, _, _)
NumMk(neg, coef, e10) ==
    IF coef = <<>> THEN [cls |-> "fin", neg |-> FALSE, coef |-> <<>>, e10 |-> 0]
    ELSE IF NModSmall(coef, 10000) = 0 THEN NumMk(neg, NDivSmall(coef, 10000), e10 + 4)
    ELSE IF NModSmall(coef, 10) = 0 THEN NumMk(neg, NDivSmall(coef, 10), e10 + 1)
    ELSE [cls |-> "fin", neg |-> neg, coef |-> coef, e10 |-> e10]

\* floor(2 * man * 2^exp * 10^s) and whether anything was cut off
\* d shifted right by n bits, what was cut off before still counted
ShrOf(d, n) == NShr(d.q, n, d.st)

ScaledTwice(man, exp, s) ==
    ShrOf(NDivList(NShl(NMulList(man, Pow10List(IF s > 0 THEN s ELSE 0)),
                        IF exp + 1 > 0 THEN exp + 1 ELSE 0),
                   Pow10List(IF s < 0 THEN 0 - s ELSE 0), FALSE),
          IF exp + 1 < 0 THEN 0 - (exp + 1) ELSE 0)

\* man * 2^exp * 10^s rounded to an integer, ties to even
ScaledRound(man, exp, s) == NRoundHalf(ScaledTwice(man, exp, s))

DBL_DIG == 15

\* f has n decimal digits
HasDigits(f, n) ==
    NLeq(NMulList(<<1>>, Pow10List(n - 1)), f) /\ NLess(f, NMulList(<<1>>, Pow10List(n)))

\* the s near -d0 for which man * 2^exp * 10^s has DBL_DIG digits before
\* the point
DigitShiftNear(man, exp, d0) ==
    CHOOSE s \in (DBL_DIG - 2) - d0 .. DBL_DIG - d0 :
        HasDigits(NShrQ(ScaledTwice(man, exp, s).q, 1), DBL_DIG)

\* d0: the decimal exponent, estimated from the binary one (log10 2 = 0.30103)
DigitShift(man, exp) ==
    DigitShiftNear(man, exp, ((NBitLen(man) + exp) * 30103) \div 100000)

\* the "%.15g" text of d, read as a numeric: DBL_DIG digits, scaled by 10^-s
NumericOfShift(d, s) == NumMk(d.neg, ScaledRound(d.man, d.exp, s), 0 - s)

float8_numeric(d) ==
    IF DIsNaN(d) THEN NumericNaN
    ELSE IF DIsInf(d) THEN NumericInf(d.neg)
    ELSE IF d.man = <<>> THEN NumMk(FALSE, <<>>, 0)
    ELSE NumericOfShift(d, DigitShift(d.man, d.exp))

numeric_float8(n) ==
    IF n.cls = "nan" THEN DNaN
    ELSE IF n.cls = "inf" THEN DInf(n.neg)
    ELSE IF n.e10 >= 0 THEN DRound(n.neg, NMulList(n.coef, Pow10List(n.e10)), 0, FALSE)
    ELSE DQuot(n.neg, n.coef, 0, Pow10List(0 - n.e10))

int4_numeric(z) == NumMk(z.neg, z.mag, 0)
int8_numeric(z) == NumMk(z.neg, z.mag, 0)

\* the number a string of decimal digits denotes
DigitValue(c) == CHOOSE d \in 0 .. 9 : DigitChar(d) = c
\* the number a text of at most four digits denotes
SmallParse(str) ==
    LET n == Len(str)
        d(i) == IF i < 1 THEN 0 ELSE DigitValue(SubSeq(str, i, i))
    IN  d(n) + 10 * d(n - 1) + 100 * d(n - 2) + 1000 * d(n - 3)
\* four digits at a time, from the right
RECURSIVE NParse(_)
NParse(str) ==
    IF Len(str) <= 4 THEN NFromInt(SmallParse(str))
    ELSE NAdd(NMulSmall(NParse(SubSeq(str, 1, Len(str) - 4)), 10000),
              NFromInt(SmallParse(SubSeq(str, Len(str) - 3, Len(str)))))

\* numeric_in on the text of an integer
numeric_in(str) ==
    IF SubSeq(str, 1, 1) = "-" THEN NumMk(TRUE, NParse(SubSeq(str, 2, Len(str))), 0)
    ELSE NumMk(FALSE, NParse(str), 0)

(***************************************************************************)
(* 9. TimeAs8601: the text of a Date for the jsonb tree walker, through    *)
(*    the C library's gmtime, strftime, modf and sprintf.                  *)
(***************************************************************************)
Pad2(k) == DigitChar((k \div 10) % 10) \o DigitChar(k % 10)

\* printf("%03d", k)
Pad03d(k) ==
    IF k >= 100 \/ k <= -100 THEN IntToString(k)
    ELSE IF k >= 0 THEN "0" \o Pad2(k)
    ELSE IF k > -10 THEN "-0" \o DigitChar(0 - k)
    ELSE IntToString(k)

\* gmtime: the broken-down UTC time of t seconds since 1970-01-01
\* the civil date of a day count, by 400-year eras starting on March 1st:
\* y the year the era's March-based year starts in, doy the day of that
\* year, mp its month (0 = March)
CivilOfMonth(y, doy, mp) ==
    [tm_year |-> y + (IF mp >= 10 THEN 1 ELSE 0),
     tm_mon  |-> IF mp < 10 THEN mp + 3 ELSE mp - 9,
     tm_mday |-> doy - ((153 * mp + 2) \div 5) + 1]

CivilOfDay(y, doy) == CivilOfMonth(y, doy, (5 * doy + 2) \div 153)

\* doe the day of the era, yoe the year of the era
CivilOfYear(era, doe, yoe) ==
    CivilOfDay(yoe + era * 400, doe - (365 * yoe + (yoe \div 4) - (yoe \div 100)))

CivilOfEra(era, doe) ==
    CivilOfYear(era, doe,
                (doe - (doe \div 1460) + (doe \div 36524) - (doe \div 146096)) \div 365)

\* days since 1970-01-01
CivilFromDays(days) ==
    CivilOfEra((days + 719468) \div 146097, (days + 719468) % 146097)

ClockOf(secs) ==
    [tm_hour |-> secs \div 3600, tm_min |-> (secs \div 60) % 60, tm_sec |-> secs % 60]

\* the date and the time of day of second t, days the day it falls in
BrokenDown(t, days) ==
    CivilFromDays(ZToInt(days)) @@ ClockOf(ZToInt(ZSub(t, ZMulList(days, <<864, 100>>))))

gmtime(t) == BrokenDown(t, ZDivFloor(t, <<864, 100>>))

\* strftime(.., "%Y-%m-%dT%H:%M:%S", tm)
strftime(tm) ==
    IntToString(tm.tm_year) \o "-" \o Pad2(tm.tm_mon) \o "-" \o Pad2(tm.tm_mday)
    \o "T" \o Pad2(tm.tm_hour) \o ":" \o Pad2(tm.tm_min) \o ":" \o Pad2(tm.tm_sec)

\* the text sprintf writes for a Date of millis milliseconds; millis is
\* finite and within the range of a Date, so both casts are defined
\* secs: millis / 1000
TimeText(secs) ==
    strftime(gmtime(DTrunc(secs))) \o "." \o
    Pad03d(ZToInt(DTrunc(DMulList(ModfFractional(secs), <<1000>>)))) \o "Z"

TimeAs8601(millis) == TimeText(DDivList(millis, <<1000>>))

(***************************************************************************)
(* 10. jsonb.  A JsonbValue is a scalar (null, string, numeric, bool) or   *)
(*     a container; the tree walker hands the database a sequence of       *)
(*     pushJsonbValue calls, and the database hands back the tokens of     *)
(*     JsonbIteratorNext.                                                  *)
(***************************************************************************)
JbNull == [type |-> "jbvNull"]
JbString(str) == [type |-> "jbvString", str |-> str]
JbNumeric(n) == [type |-> "jbvNumeric", numeric |-> n]
JbBool(b) == [type |-> "jbvBool", boolean |-> b]
JbObject(pairs) == [type |-> "jbvObject", pairs |-> pairs]
JbArray(elems) == [type |-> "jbvArray", elems |-> elems]

\* one call pushJsonbValue(pstate, tok, val); val is JbNull where the code passes NULL
Push(tok, val) == [tok |-> tok, val |-> val]

\* the printable characters in byte order, from the space (0x20) to the
\* tilde (0x7e), the grave accent (0x60) left out
Ascii ==
    " !\"#$%&'()*+,-./0123456789:;<=>?@ABCDEFGHIJKLMNOPQRSTUVWXYZ[\\]^_abcdefghijklmnopqrstuvwxyz{|}~"
CharCode(c) ==
    LET i == CHOOSE j \in 1 .. Len(Ascii) : SubSeq(Ascii, j, j) = c
    IN  IF i <= 64 THEN 31 + i ELSE 32 + i

\* lengthCompareJsonbStringValue: shorter keys first, then byte order
KeyLess(a, b) ==
    \/ Len(a) < Len(b)
    \/ /\ Len(a) = Len(b)
       /\ \E i \in 1 .. Len(a) :
            /\ CharCode(SubSeq(a, i, i)) < CharCode(SubSeq(b, i, i))
            /\ \A j \in 1 .. i - 1 : SubSeq(a, j, j) = SubSeq(b, j, j)

\* uniqueifyJsonbObject: the pairs sorted by key; of equal keys the last wins
uniqueifyJsonbObject(pairs) ==
    LET keep == {i \in 1 .. Len(pairs) :
                    \A j \in i + 1 .. Len(pairs) : pairs[j].key # pairs[i].key}
        rank(i) == Cardinality({j \in keep : KeyLess(pairs[j].key, pairs[i].key)}) + 1
    IN  [r \in 1 .. Cardinality(keep) |-> pairs[CHOOSE i \in keep : rank(i) = r]]

\* the parse state: the stack of open containers (the innermost last), each
\* with its finished pairs or elements and the key slot appendKey wrote, and
\* the value the last call returned
NoKey == [set |-> FALSE, str |-> ""]
NewParseState == [stack |-> <<>>, res |-> JbNull]
Frame(type) == [type |-> type, pairs |-> <<>>, elems |-> <<>>, key |-> NoKey]

\* appendValue / appendElement on the innermost open container
AppendTo(stack, val) ==
    LET top == stack[Len(stack)]
    IN  [stack EXCEPT ![Len(stack)] =
            IF top.type = "jbvObject"
            THEN [top EXCEPT !.pairs = Append(@, [key |-> top.key.str, value |-> val]),
                             !.key = NoKey]
            ELSE [top EXCEPT !.elems = Append(@, val)]]

pushJsonbValue(pstate, push) ==
    LET stack == pstate.stack
        top   == stack[Len(stack)]
        rest  == SubSeq(stack, 1, Len(stack) - 1)
        done  == IF top.type = "jbvObject"
                 THEN JbObject(uniqueifyJsonbObject(top.pairs))
                 ELSE JbArray(top.elems)
    IN  CASE push.tok = "WJB_BEGIN_OBJECT" ->
               [stack |-> Append(stack, Frame("jbvObject")), res |-> JbNull]
          [] push.tok = "WJB_BEGIN_ARRAY" ->
               [stack |-> Append(stack, Frame("jbvArray")), res |-> JbNull]
          [] push.tok = "WJB_KEY" ->
               [stack |-> [stack EXCEPT ![Len(stack)].key =
                                            [set |-> TRUE, str |-> push.val.str]],
                res |-> JbNull]
          [] push.tok \in {"WJB_VALUE", "WJB_ELEM"} ->
               [stack |-> AppendTo(stack, push.val), res |-> JbNull]
          [] push.tok \in {"WJB_END_OBJECT", "WJB_END_ARRAY"} ->
               [stack |-> IF rest = <<>> THEN rest ELSE AppendTo(rest, done),
                res |-> done]

RECURSIVE PushAll(_, _, _)
PushAll(pstate, pushes, i) ==
    IF i > Len(pushes) THEN pstate
    ELSE PushAll(pushJsonbValue(pstate, pushes[i]), pushes, i + 1)

\* JsonbValueToJsonb of the value the last push returned
JsonbValueToJsonb(pushes) == PushAll(NewParseState, pushes, 1).res

\* the tokens JsonbIteratorNext returns for a container, then WJB_DONE
RECURSIVE JsonbTokens(_)
RECURSIVE JsonbPairTokens(_, _)
RECURSIVE JsonbElemTokens(_, _)
JsonbTokens(jb) ==
    IF jb.type = "jbvObject"
    THEN <<Push("WJB_BEGIN_OBJECT", JbNull)>> \o JsonbPairTokens(jb.pairs, 1)
         \o <<Push("WJB_END_OBJECT", JbNull)>>
    ELSE <<Push("WJB_BEGIN_ARRAY", JbNull)>> \o JsonbElemTokens(jb.elems, 1)
         \o <<Push("WJB_END_ARRAY", JbNull)>>

JsonbPairTokens(pairs, i) ==
    IF i > Len(pairs) THEN <<>>
    ELSE <<Push("WJB_KEY", JbString(pairs[i].key))>>
         \o (IF pairs[i].value.type \in {"jbvObject", "jbvArray"}
             THEN JsonbTokens(pairs[i].value)
             ELSE <<Push("WJB_VALUE", pairs[i].value)>>)
         \o JsonbPairTokens(pairs, i + 1)

JsonbElemTokens(elems, i) ==
    IF i > Len(elems) THEN <<>>
    ELSE (IF elems[i].type \in {"jbvObject", "jbvArray"}
          THEN JsonbTokens(elems[i])
          ELSE <<Push("WJB_ELEM", elems[i])>>)
         \o JsonbElemTokens(elems, i + 1)

JsonbIteratorTokens(jb) == JsonbTokens(jb) \o <<Push("WJB_DONE", JbNull)>>

\* Object::GetOwnPropertyNames: a plain object's keys in insertion order, a
\* typed array's indices; a Date, an ArrayBuffer or a Function has no own
\* enumerable property
GetOwnPropertyNames(object) ==
    IF object.kind = "Object" THEN object.keys
    ELSE IF object.kind = "TypedArray"
    THEN [i \in 1 .. TypedLength(object) |-> IntToString(i - 1)]
    ELSE <<>>

\* Object::Get(key) for one of the object's own property names
Get(object, key) ==
    IF object.kind = "TypedArray"
    THEN TypedElement(object,
                      CHOOSE i \in 1 .. TypedLength(object) : IntToString(i - 1) = key)
    ELSE object.vals[CHOOSE i \in 1 .. Len(object.keys) : object.keys[i] = key]

\* JsonbFromValue were Undefined pushed as a null instead of skipped
JsonbFromValueAsNull(value, type) ==
    IF type = "WJB_KEY" THEN <<Push(type, JbString(ToStringV8(value)))>>
    ELSE IF IsBoolean(value) THEN <<Push(type, JbBool(value.b))>>
    ELSE IF IsNull(value) THEN <<Push(type, JbNull)>>
    ELSE IF IsUndefined(value) THEN <<Push(type, JbNull)>>
    ELSE IF IsString(value) THEN <<Push(type, JbString(ToStringV8(value)))>>
    ELSE IF IsNumber(value)
    THEN IF IsInt32(value)
         THEN <<Push(type, JbNumeric(int4_numeric(Int32Value(value))))>>
         ELSE IF IsUint32(value)
         THEN <<Push(type, JbNumeric(int8_numeric(Uint32Value(value))))>>
         ELSE <<Push(type, JbNumeric(float8_numeric(value.d)))>>
    ELSE IF IsDate(value)
    THEN IF DIsNaN(value.d) THEN <<Push(type, JbNull)>>
         ELSE <<Push(type, JbString(SubSeq(TimeAs8601(value.d), 1, 24)))>>
    ELSE <<Push(type, JbString(ToStringV8(value)))>>

\* the pushes of JsonbFromValue(pstate, value, type): none for Undefined
JsonbFromValue(value, type) ==
    IF type = "WJB_KEY" THEN <<Push(type, JbString(ToStringV8(value)))>>
    ELSE IF IsBoolean(value) THEN <<Push(type, JbBool(value.b))>>
    ELSE IF IsNull(value) THEN <<Push(type, JbNull)>>
    ELSE IF IsUndefined(value) THEN <<>>
    ELSE IF IsString(value) THEN <<Push(type, JbString(ToStringV8(value)))>>
    ELSE IF IsNumber(value)
    THEN IF IsInt32(value)
         THEN <<Push(type, JbNumeric(int4_numeric(Int32Value(value))))>>
         ELSE IF IsUint32(value)
         THEN <<Push(type, JbNumeric(int8_numeric(Uint32Value(value))))>>
         ELSE <<Push(type, JbNumeric(float8_numeric(value.d)))>>
    ELSE IF IsDate(value)
    THEN IF DIsNaN(value.d) THEN <<Push(type, JbNull)>>
         ELSE <<Push(type, JbString(SubSeq(TimeAs8601(value.d), 1, 24)))>>
    ELSE <<Push(type, JbString(ToStringV8(value)))>>

RECURSIVE JsonbArrayFromArray(_)
RECURSIVE JsonbArrayLoop(_, _)
RECURSIVE JsonbObjectFromObject(_)
RECURSIVE JsonbObjectLoop(_, _, _)
RECURSIVE JsonbObjectMember(_)
JsonbArrayFromArray(object) ==
    <<Push("WJB_BEGIN_ARRAY", JbNull)>> \o JsonbArrayLoop(object.elems, 1)
    \o <<Push("WJB_END_ARRAY", JbNull)>>

\* the body of the loop over the elements, from element i on
JsonbArrayLoop(a, i) ==
    IF i > Len(a) THEN <<>>
    ELSE (IF IsArray(a[i]) THEN JsonbArrayFromArray(a[i])
          ELSE IF IsObject(a[i]) THEN JsonbObjectFromObject(a[i])
          ELSE JsonbFromValue(a[i], "WJB_ELEM"))
         \o JsonbArrayLoop(a, i + 1)

JsonbObjectFromObject(object) ==
    <<Push("WJB_BEGIN_OBJECT", JbNull)>>
    \o JsonbObjectLoop(object, GetOwnPropertyNames(object), 1)
    \o <<Push("WJB_END_OBJECT", JbNull)>>

\* the body of the loop over the property names, from name i on
JsonbObjectLoop(object, arr, i) ==
    IF i > Len(arr) THEN <<>>
    ELSE JsonbFromValue(VStr(arr[i]), "WJB_KEY")
         \o JsonbObjectMember(Get(object, arr[i]))
         \o JsonbObjectLoop(object, arr, i + 1)

\* the pushes for the property value o
JsonbObjectMember(o) ==
    IF IsDate(o) THEN JsonbFromValue(o, "WJB_VALUE")
    ELSE IF IsArray(o) THEN JsonbArrayFromArray(o)
    ELSE IF IsObject(o) THEN JsonbObjectFromObject(o)
    ELSE JsonbFromValue(o, "WJB_VALUE")

\* the pushes ConvertObject makes for a value
ConvertObjectPushes(object) ==
    IF IsArray(object) THEN JsonbArrayFromArray(object)
    ELSE IF IsObject(object) THEN JsonbObjectFromObject(object)
    ELSE <<Push("WJB_BEGIN_ARRAY", JbNull)>> \o JsonbFromValue(object, "WJB_ELEM")
         \o <<Push("WJB_END_ARRAY", JbNull)>>

\* the Jsonb ConvertObject returns
ConvertObject(object) == JsonbValueToJsonb(ConvertObjectPushes(object))

\* float8_numeric raises its error for an infinite Number of the tree
RaisesIn(pushes, env) ==
    /\ ~env.numeric_infinity
    /\ \E i \in 1 .. Len(pushes) :
          pushes[i].val.type = "jbvNumeric" /\ pushes[i].val.numeric.cls = "inf"
ConvertObjectRaises(object, env) == RaisesIn(ConvertObjectPushes(object), env)

GetJsonbValue(scalarVal) ==
    CASE scalarVal.type = "jbvNull" -> VNull
      [] scalarVal.type = "jbvString" -> VStr(scalarVal.str)
      [] scalarVal.type = "jbvNumeric" -> VNum(numeric_float8(scalarVal.numeric))
      [] scalarVal.type = "jbvBool" -> VBool(scalarVal.boolean)

\* Object::Set(key, value) and Array Set(count, value)
SetKey(container, key, value) ==
    IF \E i \in 1 .. Len(container.keys) : container.keys[i] = key
    THEN [container EXCEPT
            !.vals[CHOOSE i \in 1 .. Len(container.keys) : container.keys[i] = key] = value]
    ELSE [container EXCEPT !.keys = Append(@, key), !.vals = Append(@, value)]

SetIndex(container, count, value) ==
    [container EXCEPT !.elems =
        [i \in 1 .. (IF count + 1 > Len(@) THEN count + 1 ELSE Len(@)) |->
            IF i = count + 1 THEN value ELSE IF i <= Len(@) THEN @[i] ELSE VUndefined]]

Put(container, count, key, value) ==
    IF IsArray(container) THEN SetIndex(container, count, value)
    ELSE SetKey(container, key, value)

\* JsonbIterate from token pos on: the filled container and the position
\* after the token that ended it
RECURSIVE JsonbIterate(_, _, _, _, _)
JsonbIterate(toks, pos, container, count, key) ==
    LET token == toks[pos].tok
        next  == IF IsArray(container) THEN count + 1 ELSE count
    IN  CASE token \in {"WJB_BEGIN_OBJECT", "WJB_BEGIN_ARRAY"} ->
               LET obj == IF token = "WJB_BEGIN_OBJECT" THEN VObj(<<>>, <<>>)
                          ELSE VArr(<<>>)
                   sub == JsonbIterate(toks, pos + 1, obj, 0, "")
               IN  JsonbIterate(toks, sub.pos, Put(container, count, key, sub.container),
                                next, key)
          [] token \in {"WJB_END_OBJECT", "WJB_END_ARRAY"} ->
               [container |-> container, pos |-> pos + 1]
          [] token = "WJB_KEY" ->
               JsonbIterate(toks, pos + 1, container, count,
                            GetJsonbValue(toks[pos].val).s)
          [] token = "WJB_VALUE" ->
               JsonbIterate(toks, pos + 1,
                            SetKey(container, key, GetJsonbValue(toks[pos].val)),
                            count, key)
          [] token = "WJB_ELEM" ->
               JsonbIterate(toks, pos + 1,
                            SetIndex(container, count, GetJsonbValue(toks[pos].val)),
                            count + 1, key)
          [] token = "WJB_DONE" ->
               [container |-> container, pos |-> pos]

ConvertJsonb(in) ==
    LET toks == JsonbIteratorTokens(in)
    IN  JsonbIterate(toks, 2,
                     IF toks[1].tok = "WJB_BEGIN_ARRAY" THEN VArr(<<>>)
                     ELSE VObj(<<>>, <<>>),
                     0, "").container

(***************************************************************************)
(* 11. Database values.  A Datum is modelled by what it holds: the zero    *)
(*     word, a pass-by-value number, or the object a pointer Datum points  *)
(*     to (a varlena, a text, a numeric, a jsonb, an array, a tuple).      *)
(***************************************************************************)
DatumZero == [rep |-> "zero"]
BoolGetDatum(b) == [rep |-> "bool", b |-> b]
Int16GetDatum(z) == [rep |-> "int2", z |-> z]
Int32GetDatum(z) == [rep |-> "int4", z |-> z]
Int64GetDatum(z) == [rep |-> "int8", z |-> z]
ObjectIdGetDatum(z) == [rep |-> "oid", z |-> z]
Float4GetDatum(d) == [rep |-> "float4", d |-> DToFloat4(d)]
Float8GetDatum(d) == [rep |-> "float8", d |-> d]
NumericGetDatum(n) == [rep |-> "numeric", numeric |-> n]
\* a bytea: SET_VARSIZE(result, len + VARHDRSZ) and the len bytes after the header
Varlena(bytes) == [rep |-> "varlena", bytes |-> bytes]
CStringGetTextDatum(str) == [rep |-> "text", str |-> str]
JsonbPGetDatum(root) == [rep |-> "jsonb", root |-> root]
\* the jsonb that jsonb_in parses from a JSON text; the model keeps the text
jsonb_in(str) == [rep |-> "jsonb_text", str |-> str]
\* a row of a composite type: the type it names and its attributes
HeapTupleGetDatum(typid, values, nulls) ==
    [rep |-> "tuple", typid |-> typid, values |-> values, nulls |-> nulls]

\* an ArrayType: ndim, dims and lbs of the header, the element type, whether
\* the header has a null bitmap (dataoffset # 0), and the elements in storage
\* order with their null flags
MkArray(ndim, dims, lbs, elemtype, bitmap, values, nulls) ==
    [rep |-> "array", ndim |-> ndim, dims |-> dims, lbs |-> lbs,
     elemtype |-> elemtype, bitmap |-> bitmap, values |-> values, nulls |-> nulls]

\* construct_empty_array
construct_empty_array(elmtype) == MkArray(0, <<>>, <<>>, elmtype, FALSE, <<>>, <<>>)

\* construct_md_array for one dimension: the null bitmap exists when some
\* element is null; without elements the server returns the empty array
construct_md_array(values, nulls, dims, lbs, elmtype, env) ==
    IF dims[1] <= 0 /\ env.empty_array = "zero_dim"
    THEN construct_empty_array(elmtype)
    ELSE MkArray(1, dims, lbs, elmtype, \E i \in 1 .. Len(nulls) : nulls[i],
                 values, nulls)

\* ArrayGetNItems(ARR_NDIM(array), ARR_DIMS(array))
RECURSIVE Product(_)
Product(dims) == IF dims = <<>> THEN 1 ELSE Head(dims) * Product(Tail(dims))
ArrayGetNItems(array) == IF array.ndim <= 0 THEN 0 ELSE Product(array.dims)

\* deconstruct_array: the elements and null flags in storage order
deconstruct_array(array) ==
    [nelems |-> ArrayGetNItems(array), values |-> array.values, nulls |-> array.nulls]

\* the w bytes of the two's complement integer z, least significant first
BytesOf(n, w) == [i \in 1 .. w |-> NModSmall(NShrQ(n, 8 * (i - 1)), 256)]
LEBytes(z, w) == BytesOf(ZModPow2(z, 8 * w), w)

\* the IEEE-754 pattern of x with p bits of precision, exponent bias b and
\* w bits in all (normal numbers, zero and the quiet NaN)
FloatBits(x, p, b, w) ==
    IF DIsNaN(x)
    THEN ZMk(FALSE, NAdd(NShl(NFromInt(2 * b + 1), p - 1), NPow2(p - 2)))
    ELSE IF x.man = <<>> THEN ZZero
    ELSE LET L     == NBitLen(x.man)
             field == NFromInt(x.exp + L - 1 + b)
             frac  == NSub(NShl(x.man, p - L), NPow2(p - 1))
             sign  == IF x.neg THEN NPow2(w - 1) ELSE <<>>
         IN  ZMk(FALSE, NAdd(sign, NAdd(NShl(field, p - 1), frac)))

\* the bytes one element takes in the data area of an array
ElementBytes(datum) ==
    CASE datum.rep = "int2" -> LEBytes(datum.z, 2)
      [] datum.rep \in {"int4", "oid"} -> LEBytes(datum.z, 4)
      [] datum.rep = "int8" -> LEBytes(datum.z, 8)
      [] datum.rep = "float4" -> LEBytes(FloatBits(datum.d, 24, 127, 32), 4)
      [] datum.rep = "float8" -> LEBytes(FloatBits(datum.d, 53, 1023, 64), 8)
      [] datum.rep = "bool" -> <<IF datum.b THEN 1 ELSE 0>>
      [] OTHER -> <<>>

\* ARR_DATA_PTR(array): the non-null elements packed in storage order
RECURSIVE PackFrom(_, _)
PackFrom(array, i) ==
    IF i > Len(array.values) THEN <<>>
    ELSE (IF array.nulls[i] THEN <<>> ELSE ElementBytes(array.values[i]))
         \o PackFrom(array, i + 1)
ARR_DATA_PTR(array) == PackFrom(array, 1)

\* ARR_OVERHEAD_NONULLS(ndims): the 16-byte header, then dims and lbs
ARR_OVERHEAD_NONULLS(ndims) == 16 + 2 * 4 * ndims
\* ARR_OVERHEAD_WITHNULLS: the bitmap follows, padded to MAXALIGN (8)
ARR_OVERHEAD_WITHNULLS(ndims, nitems) ==
    8 * ((16 + 2 * 4 * ndims + ((nitems + 7) \div 8) + 7) \div 8)
ARR_HASNULL(array) == array.bitmap
ARR_NDIM(array) == array.ndim
\* ARR_SIZE(array): the header and the data area
ARR_SIZE(array) ==
    (IF ARR_HASNULL(array)
     THEN ARR_OVERHEAD_WITHNULLS(array.ndim, ArrayGetNItems(array))
     ELSE ARR_OVERHEAD_NONULLS(array.ndim))
    + Len(ARR_DATA_PTR(array))

(***************************************************************************)
(* 12. How a conversion ends.  It returns, or it leaves by an exception:   *)
(*     js_error(msg) and pg_error() are the C++ exceptions of plv8, an     *)
(*     ereport is a database error that no PG_TRY of this file catches,    *)
(*     fatal is the end of the process.  refs is the change the call made  *)
(*     to the reference count of the tuple descriptor, mcxt what it did to *)
(*     the memory contexts.                                                *)
(***************************************************************************)
NoException == [type |-> "none", msg |-> ""]
js_error(msg) == [type |-> "js_error", msg |-> msg]
pg_error == [type |-> "pg_error", msg |-> ""]
ereport == [type |-> "ereport", msg |-> ""]
fatal == [type |-> "fatal", msg |-> ""]

\* the memory contexts after a call: which one is current (oldcontext is the
\* one that was current on entry), what became of ConvertObject's
\* conversion_context ("none" when the call made none), and the context
\* ConvertObject's result was allocated in
MemoryContexts(current, conversion, ret) ==
    [CurrentMemoryContext |-> current, conversion_context |-> conversion, ret |-> ret]
Untouched == MemoryContexts("oldcontext", "none", "none")

\* the memory contexts ConvertObject leaves.  It makes conversion_context
\* current, builds the tree, makes oldcontext current, builds the result and
\* deletes conversion_context; a database error raised while the tree is
\* built leaves the function there and then.
ConvertObjectContexts(raised) ==
    IF raised THEN MemoryContexts("conversion_context", "live", "none")
    ELSE MemoryContexts("oldcontext", "deleted", "oldcontext")

\* an encode result: *isnull and the returned Datum, or the exception
Return(datum, isnull) ==
    [exc |-> NoException, isnull |-> isnull, datum |-> datum, refs |-> 0,
     mcxt |-> Untouched]
Throw(exc) ==
    [exc |-> exc, isnull |-> FALSE, datum |-> DatumZero, refs |-> 0, mcxt |-> Untouched]
\* a decode result: the returned value, or the exception
ReturnValue(value) == [exc |-> NoException, value |-> value, refs |-> 0]
ThrowValue(exc) == [exc |-> exc, value |-> VUndefined, refs |-> 0]

\* of the results of a loop's iterations, how many iterations ran: up to and
\* including the first that threw
Ran(rs) ==
    IF \E i \in 1 .. Len(rs) : rs[i].exc # NoException
    THEN CHOOSE i \in 1 .. Len(rs) :
            /\ rs[i].exc # NoException
            /\ \A j \in 1 .. i - 1 : rs[j].exc = NoException
    ELSE Len(rs)
Threw(rs) == Ran(rs) > 0 /\ rs[Ran(rs)].exc # NoException
RECURSIVE SumRefs(_, _)
SumRefs(rs, n) == IF n = 0 THEN 0 ELSE rs[n].refs + SumRefs(rs, n - 1)
\* the exception that ended the loop, leaving the function
ThrownAt(rs, n) == [rs[n] EXCEPT !.refs = SumRefs(rs, n)]
Thrown(rs) == ThrownAt(rs, Ran(rs))

(***************************************************************************)
(* 13. Typed arrays over database memory.                                  *)
(***************************************************************************)
CreateExternalArray(data, array_type, byte_size, datum) ==
    IF byte_size < 0 THEN ThrowValue(fatal)
    ELSE CASE array_type \in {"kExternalByteArray", "kExternalUnsignedByteArray",
                              "kExternalShortArray", "kExternalUnsignedShortArray",
                              "kExternalIntArray", "kExternalUnsignedIntArray",
                              "kExternalFloatArray", "kExternalDoubleArray"} ->
                ReturnValue(VTyped(array_type, SubSeq(data, 1, byte_size), datum))
           [] array_type = "kExternalInt64Array" ->
                ThrowValue(js_error("unexpected array type"))
           [] OTHER -> ThrowValue(js_error("unexpected array type"))

\* the Datum pointer kept in internal field 0, or NULL (the zero Datum); a
\* typed array made by a script keeps none
ExtractExternalArrayDatum(value) ==
    IF IsUndefined(value) \/ IsNull(value) THEN DatumZero
    ELSE IF IsTypedArray(value) THEN value.internal
    ELSE DatumZero

(***************************************************************************)
(* 14. The texts: JSON.stringify, and the input and output functions of    *)
(*     the types.  The strings of this model's values are words, integers  *)
(*     and the texts v8 prints for the other kinds.                        *)
(***************************************************************************)
Pad3(k) == DigitChar((k \div 100) % 10) \o Pad2(k)
Pad4(k) == DigitChar((k \div 1000) % 10) \o Pad3(k)

\* Date.prototype.toISOString for a Date of m milliseconds, m an integer and
\* the year within 0000 .. 9999
ISOText(tm, ms) ==
    Pad4(tm.tm_year) \o "-" \o Pad2(tm.tm_mon) \o "-" \o Pad2(tm.tm_mday)
    \o "T" \o Pad2(tm.tm_hour) \o ":" \o Pad2(tm.tm_min) \o ":" \o Pad2(tm.tm_sec)
    \o "." \o Pad3(ms) \o "Z"

\* z milliseconds, s the second they fall in
ISOOfSecond(z, s) == ISOText(gmtime(s), ZToInt(ZSub(z, ZMulList(s, <<1000>>))))
ISOOfMillis(z) == ISOOfSecond(z, ZDivFloor(z, <<1000>>))

toISOString(m) == ISOOfMillis(DTrunc(m))

\* JSON.stringify(value); "undefined" is what CString makes of the undefined
\* it returns for a function.  In an array an undefined or a function is
\* null, in an object its property is left out.
RECURSIVE Stringify(_)
RECURSIVE StringifyElems(_, _)
RECURSIVE StringifyProps(_, _, _, _)
RECURSIVE StringifyProp(_, _, _, _, _)
Stringify(value) ==
    CASE value.kind \in {"Undefined", "Function"} -> "undefined"
      [] value.kind = "Null" -> "null"
      [] value.kind = "Boolean" -> IF value.b THEN "true" ELSE "false"
      [] value.kind = "Number" ->
            IF DIsNaN(value.d) \/ DIsInf(value.d) THEN "null"
            ELSE NumberToString(value.d)
      [] value.kind = "String" -> "\"" \o value.s \o "\""
      [] value.kind = "Date" ->
            IF DIsNaN(value.d) THEN "null" ELSE "\"" \o toISOString(value.d) \o "\""
      [] value.kind = "Array" -> "[" \o StringifyElems(value.elems, 1) \o "]"
      [] value.kind \in {"Object", "TypedArray", "ArrayBuffer"} ->
            "{" \o StringifyProps(value, GetOwnPropertyNames(value), 1, TRUE) \o "}"

StringifyElems(elems, i) ==
    IF i > Len(elems) THEN ""
    ELSE (IF i > 1 THEN "," ELSE "")
         \o (IF elems[i].kind \in {"Undefined", "Function"} THEN "null"
             ELSE Stringify(elems[i]))
         \o StringifyElems(elems, i + 1)

StringifyProps(object, names, i, first) ==
    IF i > Len(names) THEN ""
    ELSE StringifyProp(object, names, i, first, Get(object, names[i]))

\* the property names[i], whose value is o, and the properties after it
StringifyProp(object, names, i, first, o) ==
    IF o.kind \in {"Undefined", "Function"}
    THEN StringifyProps(object, names, i + 1, first)
    ELSE (IF first THEN "" ELSE ",") \o "\"" \o names[i] \o "\":"
         \o Stringify(o) \o StringifyProps(object, names, i + 1, FALSE)

\* JSON.parse(text): the value the text denotes; the model keeps the text
JSONParse(text) == [kind |-> "Parsed", text |-> text]

IsDigits(str) ==
    Len(str) > 0 /\ \A i \in 1 .. Len(str) : \E d \in 0 .. 9 : SubSeq(str, i, i) = DigitChar(d)
IsIntegerText(str) ==
    IsDigits(str) \/ (SubSeq(str, 1, 1) = "-" /\ IsDigits(SubSeq(str, 2, Len(str))))
\* a JSON number: an integer, or an integer, a point and digits
IsNumberText(str) ==
    \/ IsIntegerText(str)
    \/ \E i \in 2 .. Len(str) - 1 :
          /\ SubSeq(str, i, i) = "."
          /\ IsIntegerText(SubSeq(str, 1, i - 1))
          /\ IsDigits(SubSeq(str, i + 1, Len(str)))
IsJsonText(str) ==
    \/ IsNumberText(str)
    \/ str \in {"true", "false", "null"}
    \/ (Len(str) >= 2 /\ SubSeq(str, 1, 1) \in {"{", "[", "\""})

\* the integer an integer text denotes
ParseInteger(str) ==
    IF SubSeq(str, 1, 1) = "-" THEN ZMk(TRUE, NParse(SubSeq(str, 2, Len(str))))
    ELSE ZMk(FALSE, NParse(str))

BoolTrueTexts == {"t", "true", "y", "yes", "on", "1"}
BoolFalseTexts == {"f", "false", "n", "no", "off", "0"}

\* the width of the integer types
IntegerWidth(typid) ==
    CASE typid = "INT2OID" -> 16
      [] typid \in {"INT4OID", "posint"} -> 32
      [] typid = "INT8OID" -> 64

\* whether the input function of the type takes the text; z is the integer
\* an integer text denotes
InputAccepts(typid, str, z) ==
    CASE typid = "BOOLOID" -> str \in BoolTrueTexts \cup BoolFalseTexts
      [] typid \in {"INT2OID", "INT4OID", "INT8OID", "posint"} ->
            /\ IsIntegerText(str)
            /\ InSigned(z, IntegerWidth(typid))
            /\ (typid = "posint" => ~z.neg /\ z.mag # <<>>)
      [] typid = "OIDOID" -> IsDigits(str) /\ NLess(z.mag, NPow2(32))
      [] typid \in {"FLOAT4OID", "FLOAT8OID", "NUMERICOID"} -> IsIntegerText(str)
      [] typid \in {"TEXTOID", "BYTEAOID"} -> TRUE
      [] typid \in {"JSONOID", "JSONBOID"} -> IsJsonText(str)
      [] OTHER -> FALSE

\* the Datum the input function of the type builds from a text it takes
InputDatum(typid, str, z) ==
    CASE typid = "BOOLOID" -> BoolGetDatum(str \in BoolTrueTexts)
      [] typid = "INT2OID" -> Int16GetDatum(z)
      [] typid \in {"INT4OID", "posint"} -> Int32GetDatum(z)
      [] typid = "INT8OID" -> Int64GetDatum(z)
      [] typid = "OIDOID" -> ObjectIdGetDatum(z)
      [] typid = "FLOAT4OID" -> Float4GetDatum(DFromZ(z))
      [] typid = "FLOAT8OID" -> Float8GetDatum(DFromZ(z))
      [] typid = "NUMERICOID" -> NumericGetDatum(int8_numeric(z))
      [] typid \in {"TEXTOID", "JSONOID"} -> CStringGetTextDatum(str)
      [] typid = "BYTEAOID" ->
            Varlena([i \in 1 .. Len(str) |-> CharCode(SubSeq(str, i, i))])
      [] typid = "JSONBOID" -> jsonb_in(str)

InputCall(typid, str, z) ==
    IF InputAccepts(typid, str, z) THEN Return(InputDatum(typid, str, z), FALSE)
    ELSE Throw(pg_error)

\* InputFunctionCall inside PG_TRY: the Datum, or pg_error
InputFunctionCall(typid, str) == InputCall(typid, str, ParseInteger(str))

\* OutputFunctionCall: the text the output function of the type prints
OutputFunctionCall(typid, datum) ==
    CASE datum.rep \in {"int2", "int4", "int8", "oid"} -> ZToString(datum.z)
      [] datum.rep = "bool" -> IF datum.b THEN "t" ELSE "f"
      [] datum.rep \in {"text", "jsonb_text"} -> datum.str
      [] OTHER -> ""

(***************************************************************************)
(* 15. Encode: a v8 value to a Datum of the type.                          *)
(***************************************************************************)
\* the tuple descriptor of the composite type of the model's catalog
lookup_rowtype_tupdesc(typid) ==
    <<[attname |-> "a", atttypid |-> "INT4OID"],
      [attname |-> "b", atttypid |-> "TEXTOID"]>>

\* control leaves the switch of ToScalarDatum by a break
Break == Throw([type |-> "break", msg |-> ""])

\* case JSONBOID
\* DirectFunctionCall1(jsonb_in, ..) on the text JSON.stringify returned,
\* outside any PG_TRY
JsonbIn(str) ==
    IF IsJsonText(str) THEN Return(jsonb_in(str), FALSE) ELSE Throw(ereport)

JsonbCase(value, env) ==
    IF env.jsonb_direct
    THEN [(IF ConvertObjectRaises(value, env) THEN Throw(ereport)
           ELSE Return(JsonbPGetDatum(ConvertObject(value)), FALSE))
             EXCEPT !.mcxt = ConvertObjectContexts(ConvertObjectRaises(value, env))]
    ELSE IF IsObject(value) \/ IsArray(value) THEN JsonbIn(Stringify(value))
    ELSE Break

\* control leaves a case of the switch at the end of its block, with no break
FallThrough == Throw([type |-> "fall through", msg |-> ""])

\* case BYTEAOID; its block ends without a break
ByteaCase(value) ==
    IF IsTypedArray(value) /\
       value.ext \in {"kExternalUnsignedByteArray", "kExternalByteArray"}
    THEN Return(Varlena(SubSeq(value.bytes, 1, TypedLength(value))), FALSE)
    ELSE IF IsTypedArray(value) /\
            value.ext \in {"kExternalUnsignedShortArray", "kExternalShortArray"}
    THEN Return(Varlena(SubSeq(value.bytes, 1, TypedLength(value) * 2)), FALSE)
    ELSE IF IsTypedArray(value) /\
            value.ext \in {"kExternalUnsignedIntArray", "kExternalIntArray"}
    THEN Return(Varlena(SubSeq(value.bytes, 1, TypedLength(value) * 4)), FALSE)
    ELSE IF value.kind = "ArrayBuffer" THEN Return(Varlena(value.bytes), FALSE)
    ELSE IF ExtractExternalArrayDatum(value) # DatumZero
    THEN Return(ExtractExternalArrayDatum(value), FALSE)
    ELSE FallThrough

\* case JSONOID
JsonCase(value) ==
    IF IsObject(value) \/ IsArray(value)
    THEN Return(CStringGetTextDatum(Stringify(value)), FALSE)
    ELSE Break

\* int82 / int84 of an int64: the narrower integer, or the database's error
\* "out of range", raised outside any PG_TRY
int8_narrow(z, w) ==
    IF InSigned(z, w)
    THEN Return(IF w = 16 THEN Int16GetDatum(z) ELSE Int32GetDatum(z), FALSE)
    ELSE Throw(ereport)

\* case JSONBOID, entered by its label or from the end of the case before it
JsonbLabel(before, value, env) ==
    IF before = FallThrough THEN JsonbCase(value, env) ELSE before

\* the switch on type->typid
ScalarSwitch(value, typid, env) ==
    CASE typid = "OIDOID" ->
            IF IsNumber(value) THEN Return(ObjectIdGetDatum(Uint32Value(value)), FALSE)
            ELSE Break
      [] typid = "BOOLOID" ->
            IF IsBoolean(value) THEN Return(BoolGetDatum(value.b), FALSE) ELSE Break
      [] typid = "INT2OID" ->
            IF ~IsNumber(value) THEN Break
            ELSE IF env.check_overflow THEN int8_narrow(IntegerValue(value), 16)
            ELSE Return(Int16GetDatum(WrapSigned(Int32Value(value), 16)), FALSE)
      [] typid = "INT4OID" ->
            IF ~IsNumber(value) THEN Break
            ELSE IF env.check_overflow THEN int8_narrow(IntegerValue(value), 32)
            ELSE Return(Int32GetDatum(Int32Value(value)), FALSE)
      [] typid = "INT8OID" ->
            IF IsBigInt(value) THEN Return(Int64GetDatum(Int64Value(value)), FALSE)
            ELSE IF IsNumber(value) THEN Return(Int64GetDatum(IntegerValue(value)), FALSE)
            ELSE Break
      [] typid = "FLOAT4OID" ->
            IF IsNumber(value) THEN Return(Float4GetDatum(value.d), FALSE) ELSE Break
      [] typid = "FLOAT8OID" ->
            IF IsNumber(value) THEN Return(Float8GetDatum(value.d), FALSE) ELSE Break
      [] typid = "NUMERICOID" ->
            IF IsBigInt(value)
            THEN Return(NumericGetDatum(numeric_in(ToStringV8(value))), FALSE)
            ELSE IF IsNumber(value)
            THEN IF DIsInf(value.d) /\ ~env.numeric_infinity THEN Throw(ereport)
                 ELSE Return(NumericGetDatum(float8_numeric(value.d)), FALSE)
            ELSE Break
      [] typid = "DATEOID" ->
            IF IsDate(value) THEN Return(EpochToDate(value.d, env), FALSE) ELSE Break
      [] typid \in {"TIMESTAMPOID", "TIMESTAMPTZOID"} ->
            IF IsDate(value) THEN Return(EpochToTimestampTz(value.d, env), FALSE)
            ELSE Break
      [] typid \in {"BYTEAOID", "JSONBOID"} ->
            JsonbLabel(IF typid = "BYTEAOID" THEN ByteaCase(value) ELSE FallThrough,
                       value, env)
      [] typid = "JSONOID" -> JsonCase(value)
      [] OTHER -> Break

\* r: how the switch ended
AfterSwitch(r, value, type) ==
    IF r # Break THEN r
    \* Use lexical cast for non-numeric types.
    ELSE InputFunctionCall(type.typid, ToStringV8(value))

\* the array built with lbs[] = {0}
ArrayOfResultsFromZero(rs, type, env) ==
    IF Threw(rs) THEN Thrown(rs)
    ELSE [Return(construct_md_array([i \in 1 .. Len(rs) |-> rs[i].datum],
                                    [i \in 1 .. Len(rs) |-> rs[i].isnull],
                                    <<Len(rs)>>, <<0>>, type.typid, env), FALSE)
             EXCEPT !.refs = SumRefs(rs, Len(rs))]

\* rs: how the conversions of the elements ended; the first exception ends
\* the loop, without one the array is built
ArrayOfResults(rs, type, env) ==
    IF Threw(rs) THEN Thrown(rs)
    ELSE [Return(construct_md_array([i \in 1 .. Len(rs) |-> rs[i].datum],
                                    [i \in 1 .. Len(rs) |-> rs[i].isnull],
                                    <<Len(rs)>>, <<1>>, type.typid, env), FALSE)
             EXCEPT !.refs = SumRefs(rs, Len(rs))]

\* conv: how the Converter ended while the descriptor was pinned (refs + 1);
\* ReleaseTupleDesc(tupdesc) follows its return (refs - 1)
Pinned(conv) ==
    IF conv.exc # NoException THEN [conv EXCEPT !.refs = @ + 1]
    ELSE [conv EXCEPT !.isnull = FALSE, !.refs = @ + 1 - 1]

\* rs: how the conversions of the attributes ended
TupleOfResults(rs, typid) ==
    IF Threw(rs) THEN Thrown(rs)
    ELSE [Return(HeapTupleGetDatum(typid, [i \in 1 .. Len(rs) |-> rs[i].datum],
                                   [i \in 1 .. Len(rs) |-> rs[i].isnull]), FALSE)
             EXCEPT !.refs = SumRefs(rs, Len(rs))]

RECURSIVE ToDatum(_, _, _)
RECURSIVE ToScalarDatum(_, _, _)
RECURSIVE ToArrayDatum(_, _, _)
RECURSIVE ToRecordDatum(_, _, _)
RECURSIVE ConverterToDatum(_, _, _, _)

ToDatum(value, type, env) ==
    IF type.category = "ARRAY" THEN ToArrayDatum(value, type, env)
    ELSE ToScalarDatum(value, type, env)

\* ToScalarDatum testing IsNull alone
ToScalarDatumNullOnly(value, type, env) ==
    IF type.category = "COMPOSITE" THEN ToRecordDatum(value, type, env)
    ELSE IF IsNull(value) THEN Return(DatumZero, TRUE)
    ELSE AfterSwitch(ScalarSwitch(value, type.typid, env), value, type)

ToScalarDatum(value, type, env) ==
    IF type.category = "COMPOSITE" THEN ToRecordDatum(value, type, env)
    ELSE IF IsUndefined(value) \/ IsNull(value) THEN Return(DatumZero, TRUE)
    ELSE AfterSwitch(ScalarSwitch(value, type.typid, env), value, type)

ToArrayDatum(value, type, env) ==
    IF IsUndefined(value) \/ IsNull(value) THEN Return(DatumZero, TRUE)
    ELSE IF ExtractExternalArrayDatum(value) # DatumZero
    THEN Return(ExtractExternalArrayDatum(value), FALSE)
    ELSE IF ~IsArray(value) THEN Throw(js_error("value is not an Array"))
    ELSE ArrayOfResults([i \in 1 .. Len(value.elems) |->
                            IF type.is_composite
                            THEN ToRecordDatum(value.elems[i], type, env)
                            ELSE ToScalarDatum(value.elems[i], type, env)],
                        type, env)

ToRecordDatum(value, type, env) ==
    IF IsUndefined(value) \/ IsNull(value) THEN Return(DatumZero, TRUE)
    ELSE IF env.lookup_fails THEN Throw(pg_error)
    ELSE Pinned(ConverterToDatum(value, type.typid,
                                 lookup_rowtype_tupdesc(type.typid), env))

\* Converter::ToDatum: per attribute the property of that name, NULL when
\* the object has none
ConverterToDatum(value, typid, tupdesc, env) ==
    TupleOfResults([i \in 1 .. Len(tupdesc) |->
                       IF value.kind = "Object" /\
                          \E k \in 1 .. Len(value.keys) : value.keys[k] = tupdesc[i].attname
                       THEN ToDatum(Get(value, tupdesc[i].attname),
                                    plv8_fill_type(ZeroType, tupdesc[i].atttypid), env)
                       ELSE Return(DatumZero, TRUE)],
                   typid)

(***************************************************************************)
(* 16. Decode: a Datum of the type to a v8 value.                          *)
(***************************************************************************)
\* whether the Datum is a value of the type, as the database hands one to
\* the decoder
DatumHasType(datum, type, env) ==
    IF type.category = "ARRAY"
    THEN datum.rep = "array" /\
         datum.elemtype = (IF type.ext_array # "none"
                           THEN ElementOfDomain[type.typid] ELSE type.typid)
    ELSE IF type.category = "COMPOSITE" THEN datum.rep = "tuple"
    ELSE CASE type.typid = "OIDOID" -> datum.rep = "oid"
           [] type.typid = "BOOLOID" -> datum.rep = "bool"
           [] type.typid = "INT2OID" -> datum.rep = "int2"
           [] type.typid \in {"INT4OID", "DATEOID", "posint"} -> datum.rep = "int4"
           [] type.typid = "INT8OID" -> datum.rep = "int8"
           [] type.typid = "FLOAT4OID" -> datum.rep = "float4"
           [] type.typid = "FLOAT8OID" -> datum.rep = "float8"
           [] type.typid = "NUMERICOID" -> datum.rep = "numeric"
           [] type.typid \in {"TIMESTAMPOID", "TIMESTAMPTZOID"} ->
                 datum.rep = (IF env.int64_timestamp THEN "int8" ELSE "float8")
           [] type.typid \in {"TEXTOID", "JSONOID"} -> datum.rep = "text"
           [] type.typid = "BYTEAOID" -> datum.rep = "varlena"
           [] type.typid = "JSONBOID" ->
                 datum.rep = (IF env.jsonb_direct THEN "jsonb" ELSE "jsonb_text")
           [] OTHER -> FALSE

\* sprintf(str, "%ld", v) into char str[20]: a text of 20 characters puts
\* its terminator behind the buffer; the process goes on with the text, or
\* the stack protector ends it
Int64Text(v, env) ==
    IF Len(ZToString(v)) < 20 \/ env.stack_smash = "silent"
    THEN ReturnValue(VStr(ZToString(v)))
    ELSE ThrowValue(fatal)

\* ToString(datum, type): the output function of the type inside PG_TRY
ToStringDatum(datum, type) == VStr(OutputFunctionCall(type.typid, datum))

ToScalarValue(datum, type, env) ==
    CASE type.typid = "OIDOID" -> ReturnValue(VNum(DFromZ(datum.z)))
      [] type.typid = "BOOLOID" -> ReturnValue(VBool(datum.b))
      [] type.typid \in {"INT2OID", "INT4OID"} -> ReturnValue(VNum(DFromZ(datum.z)))
      [] type.typid = "INT8OID" ->
            IF env.bigint_graceful
            THEN IF InSigned(datum.z, 32) THEN ReturnValue(VNum(DFromZ(datum.z)))
                 ELSE Int64Text(datum.z, env)
            ELSE ReturnValue(VBigInt(datum.z))
      [] type.typid \in {"FLOAT4OID", "FLOAT8OID"} -> ReturnValue(VNum(datum.d))
      [] type.typid = "NUMERICOID" -> ReturnValue(VNum(numeric_float8(datum.numeric)))
      [] type.typid = "DATEOID" -> ReturnValue(DateNew(DateToEpoch(datum, env)))
      [] type.typid \in {"TIMESTAMPOID", "TIMESTAMPTZOID"} ->
            ReturnValue(DateNew(TimestampTzToEpoch(datum, env)))
      [] type.typid = "TEXTOID" -> ReturnValue(VStr(datum.str))
      [] type.typid = "BYTEAOID" ->
            CreateExternalArray(datum.bytes, "kExternalUnsignedByteArray",
                                Len(datum.bytes), datum)
      [] type.typid = "JSONOID" -> ReturnValue(JSONParse(datum.str))
      [] type.typid = "JSONBOID" ->
            IF env.jsonb_direct THEN ReturnValue(ConvertJsonb(datum.root))
            ELSE ReturnValue(JSONParse(ToStringDatum(datum, type).s))
      [] OTHER -> ReturnValue(ToStringDatum(datum, type))

\* the descriptor ToArrayValue makes for the elements
ElementTypeOf(tid) ==
    [ZeroType EXCEPT !.typid = tid, !.category = CatalogRow(tid).category,
                     !.layout = tid]
ElementType(type) ==
    ElementTypeOf(IF type.typid = "RECORDARRAYOID" THEN "RECORDOID" ELSE type.typid)

\* rs: how the conversions of the elements ended
ArrayOfValues(rs) ==
    IF Threw(rs) THEN Thrown(rs)
    ELSE [ReturnValue(VArr([i \in 1 .. Len(rs) |-> rs[i].value]))
             EXCEPT !.refs = SumRefs(rs, Len(rs))]

\* conv: how the Converter ended while the descriptor was pinned (refs + 1);
\* ReleaseTupleDesc(tupdesc) follows its return (refs - 1)
PinnedValue(conv) ==
    IF conv.exc # NoException THEN [conv EXCEPT !.refs = @ + 1]
    ELSE [conv EXCEPT !.refs = @ + 1 - 1]

\* rs: how the conversions of the attributes ended
ObjectOfValues(rs, tupdesc) ==
    IF Threw(rs) THEN Thrown(rs)
    ELSE [ReturnValue(VObj([i \in 1 .. Len(tupdesc) |-> tupdesc[i].attname],
                           [i \in 1 .. Len(tupdesc) |-> rs[i].value]))
             EXCEPT !.refs = SumRefs(rs, Len(rs))]

RECURSIVE ToValue(_, _, _, _)
RECURSIVE ToArrayValue(_, _, _)
RECURSIVE ToRecordValue(_, _, _)
RECURSIVE ConverterToValue(_, _, _)

ValuesOfArray(d, base, env) ==
    ArrayOfValues([i \in 1 .. d.nelems |-> ToValue(d.values[i], d.nulls[i], base, env)])

ToValue(datum, isnull, type, env) ==
    IF isnull THEN ReturnValue(VNull)
    ELSE IF type.category = "ARRAY" \/ type.typid = "RECORDARRAYOID"
    THEN ToArrayValue(datum, type, env)
    ELSE IF type.category = "COMPOSITE" \/ type.typid = "RECORDOID"
    THEN ToRecordValue(datum, type, env)
    ELSE ToScalarValue(datum, type, env)

ToArrayValue(datum, type, env) ==
    IF type.ext_array # "none"
    THEN \* We allow only non-NULL, 1-dim array.
         IF ~ARR_HASNULL(datum) /\ ARR_NDIM(datum) <= 1
         THEN CreateExternalArray(ARR_DATA_PTR(datum), type.ext_array,
                                  ARR_SIZE(datum) - ARR_OVERHEAD_NONULLS(1), datum)
         ELSE ThrowValue(js_error(
                  "NULL element, or multi-dimension array not allowed in external array type"))
    ELSE ValuesOfArray(deconstruct_array(datum), ElementType(type), env)

ToRecordValue(datum, type, env) ==
    IF env.lookup_fails THEN ThrowValue(pg_error)
    ELSE PinnedValue(ConverterToValue(datum, lookup_rowtype_tupdesc(datum.typid), env))

\* Converter::ToValue: an object with one property per attribute, in the
\* order of the attributes
ConverterToValue(tuple, tupdesc, env) ==
    ObjectOfValues([i \in 1 .. Len(tupdesc) |->
                       ToValue(tuple.values[i], tuple.nulls[i],
                               plv8_fill_type(ZeroType, tupdesc[i].atttypid), env)],
                   tupdesc)

(***************************************************************************)
(* 17. The conversions in operation.  A caller resolves the descriptor of  *)
(*     a type; a value coming from a script is encoded and the Datum, if   *)
(*     it is one of the type, decoded again; a Datum coming from the       *)
(*     database is decoded.                                                *)
(*       env       the build and the database (section 5)                  *)
(*       typid     the type the caller names                               *)
(*       type      the caller's plv8_type: zero-filled when it is resolved *)
(*                 for a conversion, of any earlier contents when the      *)
(*                 caller only resolves it                                 *)
(*       source    "script" or "database": where the input comes from;     *)
(*                 "caller" when the caller only resolves a descriptor     *)
(*       value     the script's value: the one it hands over, or the typed *)
(*                 array it was given and has written to                   *)
(*       enc       the outcome of ToDatum, or the database's Datum         *)
(*       dec       the outcome of ToValue                                  *)
(*       pc        the next step: "resolve", "encode", "decode", or        *)
(*                 "done" / "failed" when none is left; "written" when the *)
(*                 script has written to a typed array it was given, and   *)
(*                 "returned" when it has handed that array back           *)
(*       tupdesc_refcount  the reference count of the tuple descriptor     *)
(*       CurrentMemoryContext  the memory context that is current;         *)
(*                 "oldcontext" is the caller's                            *)
(*       conversion_context  ConvertObject's memory context: "none" before *)
(*                 one is made, then "live" or "deleted"                   *)
(***************************************************************************)
VARIABLES env, typid, type, source, value, enc, dec, pc, tupdesc_refcount,
          CurrentMemoryContext, conversion_context

vars ==
    <<env, typid, type, source, value, enc, dec, pc, tupdesc_refcount,
      CurrentMemoryContext, conversion_context>>

\* the type cache's own reference to the descriptor
InitialRefcount == 1

\* no outcome yet
Pending == [type |-> "pending", msg |-> ""]

ScriptInput(e, t, v) ==
    [env |-> e, typid |-> t, source |-> "script", value |-> v, enc |-> Throw(Pending),
     prior |-> ZeroType]
DatabaseInput(e, t, datum, isnull) ==
    [env |-> e, typid |-> t, source |-> "database", value |-> VUndefined,
     enc |-> Return(datum, isnull), prior |-> ZeroType]
\* the caller resolves typid t into a descriptor that holds prior
CallerInput(e, t, prior) ==
    [env |-> e, typid |-> t, source |-> "caller", value |-> VUndefined,
     enc |-> Throw(Pending), prior |-> prior]

\* the bounds of the inputs: the longest array and the most keys of an object
MaxLen == 2
MaxKeys == 3

\* the sequences over S of length at most n
RECURSIVE SeqsUpTo(_, _)
SeqsUpTo(S, n) ==
    IF n = 0 THEN {<<>>}
    ELSE SeqsUpTo(S, n - 1) \cup
         {Append(q, x) : q \in {r \in SeqsUpTo(S, n - 1) : Len(r) = n - 1}, x \in S}

ZS(str) == ParseInteger(str)
Num(str) == VNum(DFromZ(ZS(str)))
Half(k) == VNum(DDivList(DFromZ(ZInt(k)), <<2>>))
Infinity == VNum(DInf(FALSE))
DateOf(str) == VDate(DFromZ(ZS(str)))

\* the builds and databases: the default, and each switch turned
Envs ==
    {DefaultEnv,
     [DefaultEnv EXCEPT !.jsonb_direct = FALSE],
     [DefaultEnv EXCEPT !.bigint_graceful = TRUE],
     [DefaultEnv EXCEPT !.bigint_graceful = TRUE, !.stack_smash = "abort"],
     [DefaultEnv EXCEPT !.check_overflow = TRUE],
     [DefaultEnv EXCEPT !.int64_timestamp = FALSE],
     [DefaultEnv EXCEPT !.cast_ub = "zero"],
     [DefaultEnv EXCEPT !.empty_array = "one_dim"],
     [DefaultEnv EXCEPT !.lookup_fails = TRUE]}

\* the ends and the middle of the w-bit signed range
SignedRange(w) ==
    {ZMk(TRUE, NPow2(w - 1)), ZMk(TRUE, NSub(NPow2(w - 1), <<1>>)), ZInt(-1), ZZero,
     ZInt(1), ZMk(FALSE, NSub(NPow2(w - 1), <<2>>)), ZMk(FALSE, NSub(NPow2(w - 1), <<1>>))}
\* 64-bit values beyond the integers a double holds exactly
Beyond53 ==
    {ZMk(TRUE, NAdd(NPow2(53), <<1>>)), ZMk(FALSE, NAdd(NPow2(53), <<1>>)),
     ZS("1234567890123456789")}
UnsignedRange ==
    {ZZero, ZInt(1), ZMk(FALSE, NPow2(31)), ZMk(FALSE, NSub(NPow2(32), <<1>>))}

\* values of every kind
SampleValues ==
    {VUndefined, VNull, VBool(TRUE), VBool(FALSE),
     Num("0"), Num("42"), Num("-7"), Num("40000"), Num("4294967296"), Half(5),
     VNum(DNaN), VBigInt(ZS("123")), VBigInt(ZMk(FALSE, NPow2(63))),
     VStr("abc"), VStr("42"), VStr("true"),
     DateOf("1577836800123"), VDate(DNaN),
     VObj(<<"a">>, <<Num("1")>>), VArr(<<Num("1"), Num("2")>>),
     VTyped("kExternalUnsignedByteArray", <<1, 2>>, DatumZero),
     VTyped("kExternalShortArray", <<1, 0, 2, 0>>, DatumZero),
     VTyped("kExternalDoubleArray", <<0, 0, 0, 0, 0, 0, 240, 63>>, DatumZero),
     VArrayBuffer(<<1, 2, 3>>), VFunction}

\* every kind of value for every type that is not an array or a row
ScalarInputs ==
    {ScriptInput(e, t, v) : e \in Envs, t \in ScalarTypids \cup {"posint"},
                            v \in SampleValues}
    \cup {ScriptInput(e, "NUMERICOID", Infinity) :
             e \in {DefaultEnv, [DefaultEnv EXCEPT !.numeric_infinity = TRUE]}}

\* the integer types over their ranges, in the kind the decoder gives them
IntegerInputs ==
    {ScriptInput(e, "BOOLOID", VBool(b)) : e \in Envs, b \in BOOLEAN}
    \cup {ScriptInput(e, "INT2OID", VNum(DFromZ(z))) : e \in Envs, z \in SignedRange(16)}
    \cup {ScriptInput(e, "INT4OID", VNum(DFromZ(z))) : e \in Envs, z \in SignedRange(32)}
    \cup {ScriptInput(e, "OIDOID", VNum(DFromZ(z))) : e \in Envs, z \in UnsignedRange}
    \cup {ScriptInput(e, "INT8OID", VBigInt(z)) :
             e \in Envs, z \in SignedRange(64) \cup SignedRange(32) \cup Beyond53}

\* Dates of an integer number of milliseconds, before and after 1970 and
\* 2000, near and far
DateSamples ==
    {DateOf("0"), DateOf("-1"), DateOf("-1500"), DateOf("946684799999"),
     DateOf("946684800000"), DateOf("1577836800000"), DateOf("1577836800123"),
     DateOf("10000000000001"), DateOf("100000000000001"),
     DateOf("-71111371181921"), DateOf("8640000000000000"),
     DateOf("-8640000000000000")}
DateInputs ==
    {ScriptInput(e, t, d) : e \in Envs, t \in {"TIMESTAMPOID", "TIMESTAMPTZOID", "DATEOID"},
                            d \in DateSamples}

\* the elements a script puts into an array of each array type
ElemSamples(t) ==
    CASE t = "INT4ARRAYOID" -> {VNull, VUndefined, Num("1"), VStr("7"), VStr("ab")}
      [] t = "INT8ARRAYOID" ->
            {VNull, Num("42"), VBigInt(ZMk(FALSE, NAdd(NPow2(53), <<1>>))),
             VBigInt(ZMk(TRUE, NPow2(63)))}
      [] t = "TEXTARRAYOID" -> {VUndefined, VStr("abc"), Num("42")}
      [] t = "BOOLARRAYOID" -> {VNull, VBool(TRUE), VStr("true")}
      [] OTHER -> \* rowtype_array
            {VNull, VObj(<<"a", "b">>, <<Num("1"), VStr("x")>>),
             VObj(<<"a">>, <<VStr("x")>>)}

\* a database array of one dimension as a typed array keeps it
Int4Array(zs) ==
    MkArray(1, <<Len(zs)>>, <<1>>, "INT4OID", FALSE,
            [i \in 1 .. Len(zs) |-> Int32GetDatum(ZInt(zs[i]))],
            [i \in 1 .. Len(zs) |-> FALSE])

\* what a script hands over where an array is expected, that is no array
NotArrays ==
    {VNull, VUndefined, Num("1"), VStr("abc"), VObj(<<"a">>, <<Num("1")>>),
     VTyped("kExternalIntArray", <<1, 0, 0, 0>>, Int4Array(<<1>>)),
     VTyped("kExternalIntArray", <<1, 0, 0, 0>>, DatumZero)}

\* arrays of at most MaxLen elements for every array type, and the values
\* that are no arrays
ArrayInputs ==
    UNION {{ScriptInput(e, t, VArr(q)) :
               e \in Envs, q \in SeqsUpTo(ElemSamples(t), MaxLen)} :
           t \in ArrayTypids \cup {"rowtype_array"}}
    \cup {ScriptInput(e, t, v) :
             e \in Envs,
             t \in {"INT4ARRAYOID", "rowtype_array", "plv8_int4array"},
             v \in NotArrays \cup {VArr(<<Num("1")>>)}}

\* the Datum of element type t that holds the small integer k
DatumOf(t, k) ==
    CASE t = "INT2OID" -> Int16GetDatum(ZInt(k))
      [] t = "INT4OID" -> Int32GetDatum(ZInt(k))
      [] t = "INT8OID" -> Int64GetDatum(ZInt(k))
      [] t = "FLOAT4OID" -> Float4GetDatum(DDivList(DFromZ(ZInt(k)), <<2>>))
      [] t = "FLOAT8OID" -> Float8GetDatum(DDivList(DFromZ(ZInt(k)), <<2>>))
      [] t = "BOOLOID" -> BoolGetDatum(k > 0)
      [] OTHER -> CStringGetTextDatum(IntToString(k))

\* an element of a database array: a Datum, or NULL
Cells(t) ==
    {[datum |-> DatumOf(t, k), isnull |-> FALSE] : k \in {3, -2}}
    \cup {[datum |-> DatumZero, isnull |-> TRUE]}

\* the array of the cells in one dimension, as the server builds it
OneDim(t, cells, e) ==
    construct_md_array([i \in 1 .. Len(cells) |-> cells[i].datum],
                       [i \in 1 .. Len(cells) |-> cells[i].isnull],
                       <<Len(cells)>>, <<1>>, t, e)

\* an array of two dimensions, one row of two columns
TwoDim(t) ==
    MkArray(2, <<1, 2>>, <<1, 1>>, t, FALSE, <<DatumOf(t, 3), DatumOf(t, -2)>>,
            <<FALSE, FALSE>>)

\* the element type of the arrays of an array type or reserved domain
StoredElement(t) ==
    IF t \in DOMAIN ExternalArrayNames THEN ElementOfDomain[t] ELSE ElementOf[t]

\* arrays the database hands to the decoder, for the reserved domains and
\* the plain array types: no, one and two dimensions, with and without NULLs
DatabaseArrays ==
    UNION {{DatabaseInput(e, t, OneDim(StoredElement(t), q, e), FALSE) :
               e \in Envs, q \in SeqsUpTo(Cells(StoredElement(t)), MaxLen)} :
           t \in DOMAIN ExternalArrayNames \cup ArrayTypids}
    \cup {DatabaseInput(e, t, TwoDim(StoredElement(t)), FALSE) :
             e \in Envs, t \in DOMAIN ExternalArrayNames \cup ArrayTypids}

\* the SQL NULL of every type
NullInputs == {DatabaseInput(e, t, DatumZero, TRUE) : e \in Envs, t \in Typids}

\* 1 + 2^-16, the double 1.0000152587890625: a Number of 17 digits
Fine == VNum(DDivList(DFromZ(ZInt(65537)), <<256, 256>>))

\* the leaves of the trees a script hands over as json or jsonb
JsonLeaves ==
    {VUndefined, VNull, VBool(TRUE), Num("1"), Half(5), VStr("s"),
     Num("9007199254740992"), DateOf("-1")}
PropSamples == {VUndefined, VNull, Num("1"), VStr("s")}
\* property names in insertion order; their order in a jsonb is a, c, bb, dd
KeyNames == <<"bb", "a", "c", "dd">>

\* the objects of exactly n properties over the samples
ObjectsOf(n) ==
    {VObj(SubSeq(KeyNames, 1, n), q) :
        q \in {r \in SeqsUpTo(PropSamples, n) : Len(r) = n}}

\* containers in containers, and Dates where they can stand
NestedTrees ==
    {VObj(<<"k">>, <<VArr(<<Num("1"), Half(5), VNull, VStr("s")>>)>>),
     VObj(<<"x">>, <<VObj(<<"a", "bb", "c">>, <<Num("1"), VUndefined, VStr("s")>>)>>),
     VObj(<<"a", "b">>, <<VArr(<<VUndefined, Num("1")>>), VObj(<<>>, <<>>)>>),
     VArr(<<VArr(<<VUndefined>>), VObj(<<"a", "b">>, <<VUndefined, VArr(<<>>)>>)>>),
     VArr(<<VObj(<<"a">>, <<VBool(FALSE)>>), VArr(<<VStr("s"), VNull>>)>>),
     VArr(<<Fine>>), VObj(<<"n">>, <<Fine>>),
     VArr(<<VDate(DNaN)>>), VObj(<<"d">>, <<VDate(DNaN)>>),
     VArr(<<Num("1"), Infinity>>), VObj(<<"n">>, <<VNum(DInf(TRUE))>>)}
    \cup {VObj(<<"d">>, <<d>>) : d \in DateSamples}

JsonTrees ==
    {VArr(q) : q \in SeqsUpTo(JsonLeaves, MaxLen)}
    \cup UNION {ObjectsOf(n) : n \in 0 .. Min(MaxKeys, Len(KeyNames))}
    \cup NestedTrees

\* the trees for json and jsonb, in the build that walks the tree and in the
\* build that goes through JSON text
JsonInputs ==
    {ScriptInput(e, t, v) :
        e \in {DefaultEnv, [DefaultEnv EXCEPT !.jsonb_direct = FALSE],
                [DefaultEnv EXCEPT !.numeric_infinity = TRUE]},
        t \in {"JSONBOID", "JSONOID"},
        v \in JsonTrees}

\* what a script hands over for a row of (a int4, b text)
RowValues ==
    {VNull, VUndefined,
     VObj(<<"a", "b">>, <<Num("1"), VStr("x")>>),
     VObj(<<"b", "a">>, <<VStr("x"), Num("1")>>),
     VObj(<<"a">>, <<Num("1")>>), VObj(<<"b">>, <<VNull>>), VObj(<<>>, <<>>),
     VObj(<<"a">>, <<VStr("x")>>), VObj(<<"b", "a">>, <<VStr("x"), VStr("ab")>>),
     VObj(<<"a", "c">>, <<VBool(TRUE), Num("1")>>)}

\* the rows the database hands to the decoder
RowDatums ==
    {HeapTupleGetDatum("rowtype", <<Int32GetDatum(ZInt(1)), CStringGetTextDatum("x")>>,
                       <<FALSE, FALSE>>),
     HeapTupleGetDatum("rowtype", <<DatumZero, CStringGetTextDatum("x")>>,
                       <<TRUE, FALSE>>),
     HeapTupleGetDatum("rowtype", <<DatumZero, DatumZero>>, <<TRUE, TRUE>>)}

RecordInputs ==
    {ScriptInput(e, "rowtype", v) : e \in Envs, v \in RowValues}
    \cup {DatabaseInput(e, "rowtype", d, FALSE) : e \in Envs, d \in RowDatums}

\* a descriptor as an earlier resolve left it, or zero-filled
PriorTypes == {ZeroType} \cup {plv8_fill_type(ZeroType, t) : t \in Typids}
ResolveInputs == {CallerInput(DefaultEnv, t, p) : t \in Typids, p \in PriorTypes}

Inputs ==
    ScalarInputs \cup IntegerInputs \cup DateInputs \cup ArrayInputs
    \cup DatabaseArrays \cup NullInputs \cup JsonInputs \cup RecordInputs
    \cup ResolveInputs

Init ==
    \E in \in Inputs :
        /\ env = in.env
        /\ typid = in.typid
        /\ source = in.source
        /\ value = in.value
        /\ enc = in.enc
        /\ dec = ThrowValue(Pending)
        /\ type = in.prior
        /\ pc = "resolve"
        /\ tupdesc_refcount = InitialRefcount
        /\ CurrentMemoryContext = "oldcontext"
        /\ conversion_context = "none"

\* the caller fills its descriptor
FillType ==
    /\ pc = "resolve"
    /\ type' = plv8_fill_type(type, typid)
    /\ pc' = CASE source = "script" -> "encode"
                [] source = "database" -> "decode"
                [] OTHER -> "resolved"
    /\ UNCHANGED <<env, typid, source, value, enc, dec, tupdesc_refcount,
                   CurrentMemoryContext, conversion_context>>

\* ToDatum(value, &isnull, &type)
Encode ==
    /\ pc = "encode"
    /\ enc' = ToDatum(value, type, env)
    /\ tupdesc_refcount' = tupdesc_refcount + enc'.refs
    /\ pc' = IF enc'.exc = NoException THEN "decode" ELSE "failed"
    /\ CurrentMemoryContext' = enc'.mcxt.CurrentMemoryContext
    /\ conversion_context' = enc'.mcxt.conversion_context
    /\ UNCHANGED <<env, typid, type, source, value, dec>>

\* ToValue(datum, isnull, &type) of a NULL or of a Datum of the type
Decode ==
    /\ pc = "decode"
    /\ enc.isnull \/ DatumHasType(enc.datum, type, env)
    /\ dec' = ToValue(enc.datum, enc.isnull, type, env)
    /\ tupdesc_refcount' = tupdesc_refcount + dec'.refs
    /\ pc' = IF dec'.exc = NoException THEN "done" ELSE "failed"
    /\ UNCHANGED <<env, typid, type, source, value, enc,
                   CurrentMemoryContext, conversion_context>>

\* the bytes a script stores into a typed array
WrittenBytes == {0, 255}

\* the script stores a byte of an element of the typed array that ToValue
\* made for it over a database array
ScriptWrite ==
    /\ pc = "done"
    /\ source = "database"
    /\ IsTypedArray(dec.value)
    /\ \E i \in 1 .. Len(dec.value.bytes), b \in WrittenBytes :
          value' = [dec.value EXCEPT !.bytes[i] = b]
    /\ pc' = "written"
    /\ UNCHANGED <<env, typid, type, source, enc, dec, tupdesc_refcount,
                   CurrentMemoryContext, conversion_context>>

\* the script returns the typed array: ToDatum(value, &isnull, &type)
EncodeBack ==
    /\ pc = "written"
    /\ enc' = ToDatum(value, type, env)
    /\ tupdesc_refcount' = tupdesc_refcount + enc'.refs
    /\ CurrentMemoryContext' = enc'.mcxt.CurrentMemoryContext
    /\ conversion_context' = enc'.mcxt.conversion_context
    /\ pc' = "returned"
    /\ UNCHANGED <<env, typid, type, source, value, dec>>

Next == FillType \/ Encode \/ Decode \/ ScriptWrite \/ EncodeBack

Spec == Init /\ [][Next]_vars

(***************************************************************************)
(* 18. The claims of the specification, stated over the conversions in     *)
(*     operation.                                                          *)
(***************************************************************************)
\* the script's value has been through ToDatum
Encoded == source = "script" /\ pc \in {"decode", "done", "failed"}
\* the Datum has been through ToValue
Decoded == pc = "done" \/ (pc = "failed" /\ dec.exc # Pending)
Nullish(v) == IsUndefined(v) \/ IsNull(v)
IsScalarType == type.category \notin {"ARRAY", "COMPOSITE"}

\* the kind of value the case of a type in ToScalarDatum converts directly
Expects(t, v) ==
    CASE t = "BOOLOID" -> IsBoolean(v)
      [] t \in {"OIDOID", "INT2OID", "INT4OID", "FLOAT4OID", "FLOAT8OID"} -> IsNumber(v)
      [] t \in {"INT8OID", "NUMERICOID"} -> IsNumber(v) \/ IsBigInt(v)
      [] t \in {"DATEOID", "TIMESTAMPOID", "TIMESTAMPTZOID"} -> IsDate(v)
      [] t = "BYTEAOID" -> IsTypedArray(v) \/ v.kind = "ArrayBuffer"
      [] t \in {"JSONOID", "JSONBOID"} -> IsObject(v) \/ IsArray(v)
      [] OTHER -> FALSE

\* C1: for every scalar type and every value that is neither null nor of the
\* kind the type's case converts, ToScalarDatum ends as the input function
\* of that type ends on the value's string: it returns what the function
\* returns and throws where the function throws.
C1_LexicalCast ==
    (Encoded /\ IsScalarType /\ ~Nullish(value) /\ ~Expects(type.typid, value))
        => enc = InputFunctionCall(type.typid, ToStringV8(value))

\* C2: null mapping.  ToDatum returns NULL (isnull set, the zero Datum)
\* exactly for Undefined and Null, whatever the category of the type, and
\* for the elements of an array it builds; ToValue of a NULL is Null for
\* every type, and a NULL element of a decoded array is Null at its place.
C2_NullMapping ==
    /\ (Encoded /\ Nullish(value)) => enc = Return(DatumZero, TRUE)
    /\ (Encoded /\ ~Nullish(value)) => ~enc.isnull
    /\ (Encoded /\ IsArray(value) /\ enc.exc = NoException /\ type.category = "ARRAY")
          => /\ Len(enc.datum.nulls) = Len(value.elems)
             /\ \A i \in 1 .. Len(value.elems) :
                   enc.datum.nulls[i] <=> Nullish(value.elems[i])
    /\ (Decoded /\ enc.isnull) => dec = ReturnValue(VNull)
    /\ (pc = "done" /\ ~enc.isnull /\ type.category = "ARRAY" /\ IsArray(dec.value))
          => /\ Len(dec.value.elems) = Len(enc.datum.nulls)
             /\ \A i \in 1 .. Len(enc.datum.nulls) :
                   enc.datum.nulls[i] <=> IsNull(dec.value.elems[i])

\* an array with an Undefined before a value has gone both ways
C2_Witness ==
    /\ pc = "done" /\ source = "script" /\ IsArray(value) /\ Len(value.elems) = 2
    /\ IsUndefined(value.elems[1]) /\ ~Nullish(value.elems[2])
    /\ enc.datum.nulls = <<TRUE, FALSE>>
    /\ dec.value.elems[1] = VNull /\ ~IsNull(dec.value.elems[2])

\* v is a value of the integer type t, in the kind ToScalarValue gives it
IntegerOfType(t, v, e) ==
    CASE t = "BOOLOID" -> IsBoolean(v)
      [] t = "INT2OID" -> IsNumber(v) /\ DIsInteger(v.d) /\ InSigned(DTrunc(v.d), 16)
      [] t = "INT4OID" -> IsInt32(v)
      [] t = "OIDOID" -> IsUint32(v)
      [] t = "INT8OID" -> IsBigInt(v) /\ InSigned(v.z, 64) /\ ~e.bigint_graceful
      [] OTHER -> FALSE

\* C3: a value of bool, int2, int4, int8 or oid, given as the Boolean,
\* Number or (default build) BigInt the decoder produces, is encoded to a
\* Datum of the type without an error, and that Datum decodes to the value.
C3_IntegerRoundTrip ==
    (Encoded /\ IntegerOfType(typid, value, env))
        => /\ enc.exc = NoException /\ ~enc.isnull
           /\ DatumHasType(enc.datum, type, env)
           /\ Decoded => dec = ReturnValue(value)

\* the smallest int8 and a value beyond 2^53 have gone both ways
C3_Witness ==
    /\ pc = "done" /\ typid = "INT8OID" /\ IsBigInt(value)
    /\ value.z \in {ZMk(TRUE, NPow2(63)), ZMk(FALSE, NAdd(NPow2(53), <<1>>))}
    /\ dec.value = value

\* a Date of an integer number of milliseconds that a Date and a timestamp
\* can both hold: from 4714-11-24 BC, the first timestamp, to the last Date
RepresentableDate(v) ==
    /\ IsDate(v) /\ ~DIsNaN(v.d) /\ DIsInteger(v.d)
    /\ ZLeq(ZS("-210866803200000"), DTrunc(v.d))
    /\ ZLeq(DTrunc(v.d), ZS("8640000000000000"))

\* C4: with microsecond timestamps, a Date of an integer number of
\* milliseconds in the representable range is encoded as a timestamp without
\* an error and decodes to a Date of exactly the same epoch value.
C4_TimestampRoundTrip ==
    (Encoded /\ typid \in {"TIMESTAMPOID", "TIMESTAMPTZOID"} /\ env.int64_timestamp
             /\ RepresentableDate(value))
        => /\ enc.exc = NoException
           /\ Decoded => dec = ReturnValue(value)

\* C5: decoding an array of a reserved external-buffer domain.  Without a
\* null bitmap and with exactly one dimension the result is a typed array of
\* the domain's kind over the packed bytes of the elements; with a null
\* bitmap or more than one dimension it is the error "NULL element, or
\* multi-dimension array not allowed in external array type"; it is never a
\* plain Array.
C5_ExternalDecode ==
    (Decoded /\ type.ext_array # "none" /\ ~enc.isnull)
        => /\ (~ARR_HASNULL(enc.datum) /\ ARR_NDIM(enc.datum) = 1)
                 => /\ dec.exc = NoException
                    /\ IsTypedArray(dec.value)
                    /\ dec.value.ext = type.ext_array
                    /\ dec.value.bytes = ARR_DATA_PTR(enc.datum)
           /\ (ARR_HASNULL(enc.datum) \/ ARR_NDIM(enc.datum) > 1)
                 => dec.exc = js_error(
                       "NULL element, or multi-dimension array not allowed in external array type")
           /\ ~IsArray(dec.value)

\* an Array has been encoded under an array type that is no external-buffer
\* domain
ArrayEncoded ==
    /\ Encoded /\ IsArray(value) /\ enc.exc = NoException
    /\ type.category = "ARRAY" /\ type.ext_array = "none"

\* the encoded array has one dimension, of the length of the value, from 1
OneDimension ==
    /\ enc.datum.ndim = 1
    /\ enc.datum.dims = <<Len(value.elems)>>
    /\ enc.datum.lbs = <<1>>

\* the decoder's result for element i of the encoded array
ElementDecoded(i) ==
    ToValue(enc.datum.values[i], enc.datum.nulls[i], ElementType(type), env)

\* the decoded array has the length of the value, and at each place the
\* decode of the encoded element, Null where the element is NULL
DecodedInOrder ==
    /\ IsArray(dec.value)
    /\ Len(dec.value.elems) = Len(value.elems)
    /\ \A i \in 1 .. Len(value.elems) :
          /\ dec.value.elems[i] = ElementDecoded(i).value
          /\ Nullish(value.elems[i]) <=> IsNull(dec.value.elems[i])

\* C6 as stated: an Array of N >= 0 elements is encoded as an array of one
\* dimension of length N with lower bound 1, and decodes to N elements, each
\* the decode of the encoded element, nulls in place.
C6_ArrayShape ==
    ArrayEncoded => (OneDimension /\ (pc = "done" => DecodedInOrder))

\* C6 amended: for N >= 1 the encoded array has one dimension of length N
\* with lower bound 1; for N = 0 it is an empty array, of one dimension of
\* length 0 or (as construct_md_array builds it on current servers) of no
\* dimension; either decodes to N elements, each the decode of the encoded
\* element, nulls in place, and the decode fails only where the decode of
\* an element fails.
C6_ArrayShapeAmended ==
    ArrayEncoded
        => /\ Len(value.elems) > 0 => OneDimension
           /\ Len(value.elems) = 0 =>
                 (ArrayGetNItems(enc.datum) = 0 /\ enc.datum.ndim \in {0, 1})
           /\ Len(enc.datum.values) = Len(value.elems)
           /\ pc = "done" => DecodedInOrder
           /\ (pc = "failed" /\ Decoded) =>
                 \E i \in 1 .. Len(value.elems) : ElementDecoded(i).exc = dec.exc

\* the Array of no element has gone both ways through the empty array of
\* no dimension
C6_Witness ==
    /\ ArrayEncoded /\ pc = "done"
    /\ Len(value.elems) = 0 /\ enc.datum.ndim = 0 /\ dec.value = VArr(<<>>)

\* v is built from plain objects, Arrays, Null, Booleans, Numbers and Strings
RECURSIVE IsJsonTree(_)
IsJsonTree(v) ==
    CASE v.kind = "Object" -> \A i \in 1 .. Len(v.vals) : IsJsonTree(v.vals[i])
      [] v.kind = "Array" -> \A i \in 1 .. Len(v.elems) : IsJsonTree(v.elems[i])
      [] OTHER -> v.kind \in {"Null", "Boolean", "Number", "String"}

\* a and b are containers of the same kind with the same keys, or the same
\* length, and the same values in them, or they are equal leaves
RECURSIVE SameJson(_, _)
SameJson(a, b) ==
    CASE a.kind = "Object" ->
            /\ b.kind = "Object"
            /\ {a.keys[i] : i \in 1 .. Len(a.keys)} = {b.keys[i] : i \in 1 .. Len(b.keys)}
            /\ Len(a.keys) = Len(b.keys)
            /\ \A i \in 1 .. Len(a.keys) : SameJson(a.vals[i], Get(b, a.keys[i]))
      [] a.kind = "Array" ->
            /\ b.kind = "Array"
            /\ Len(a.elems) = Len(b.elems)
            /\ \A i \in 1 .. Len(a.elems) : SameJson(a.elems[i], b.elems[i])
      [] OTHER -> a = b

\* C7: on the tree-walking jsonb path, a plain object or an Array built only
\* from plain objects, Arrays, Null, Booleans, Numbers and Strings is
\* encoded without an error and decodes to the same containers with the same
\* keys, lengths, order and values.
C7_JsonbRoundTrip ==
    (Encoded /\ typid = "JSONBOID" /\ env.jsonb_direct
             /\ value.kind \in {"Object", "Array"} /\ IsJsonTree(value))
        => /\ enc.exc = NoException
           /\ Decoded => (dec.exc = NoException /\ SameJson(value, dec.value))

\* the strings the tree walker emitted for the Date properties of value,
\* each with the Date it came from
DateTexts ==
    {<<value.vals[i], Get(ConvertJsonb(enc.datum.root), value.keys[i])>> :
        i \in {j \in 1 .. Len(value.keys) : IsDate(value.vals[j])}}

\* the year of m is within 0000 .. 9999
FourDigitYear(v) ==
    /\ ZLeq(ZS("-62167219200000"), DTrunc(v.d))
    /\ ZLeq(DTrunc(v.d), ZS("253402300799999"))

\* C8: the string the tree walker emits for a Date of m milliseconds, m an
\* integer (before or after 1970), is 24 characters long, has the form
\* YYYY-MM-DDTHH:MM:SS.mmmZ, denotes the UTC calendar time of m, and its mmm
\* is the three digits of m mod 1000: it is the text toISOString gives.
C8_DateFormat ==
    (Encoded /\ typid = "JSONBOID" /\ env.jsonb_direct /\ IsObject(value)
             /\ value.kind = "Object" /\ enc.exc = NoException)
        => \A p \in DateTexts :
              (~DIsNaN(p[1].d) /\ DIsInteger(p[1].d) /\ FourDigitYear(p[1]))
                 => /\ IsString(p[2])
                    /\ Len(p[2].s) = 24
                    /\ p[2].s = toISOString(p[1].d)

\* value with every Undefined property and every Undefined element removed,
\* at every level
RECURSIVE WithoutUndefined(_)
WithoutUndefined(v) ==
    CASE v.kind = "Object" ->
            LET keep == {i \in 1 .. Len(v.keys) : ~IsUndefined(v.vals[i])}
                at(r) == CHOOSE i \in keep : Cardinality({j \in keep : j < i}) = r - 1
            IN  VObj([r \in 1 .. Cardinality(keep) |-> v.keys[at(r)]],
                     [r \in 1 .. Cardinality(keep) |-> WithoutUndefined(v.vals[at(r)])])
      [] v.kind = "Array" ->
            LET keep == {i \in 1 .. Len(v.elems) : ~IsUndefined(v.elems[i])}
                at(r) == CHOOSE i \in keep : Cardinality({j \in keep : j < i}) = r - 1
            IN  VArr([r \in 1 .. Cardinality(keep) |-> WithoutUndefined(v.elems[at(r)])])
      [] OTHER -> v

TreeWalked ==
    /\ Encoded /\ typid = "JSONBOID" /\ env.jsonb_direct
    /\ value.kind \in {"Object", "Array"}

\* C9: the tree walker drops Undefined: the jsonb of an object or an Array is
\* the jsonb of the same value without its Undefined properties (neither the
\* key nor a value, wherever the key stands) and without its Undefined
\* elements (no null in their place); everything else is encoded as it is
\* without them.
C9_UndefinedDropped ==
    (TreeWalked /\ enc.exc = NoException)
        => /\ enc.datum = JsonbPGetDatum(ConvertObject(WithoutUndefined(value)))
           /\ IsObject(value) /\ value.kind = "Object"
                => \A i \in 1 .. Len(value.keys) :
                      IsUndefined(value.vals[i])
                         => \A p \in 1 .. Len(enc.datum.root.pairs) :
                               enc.datum.root.pairs[p].key # value.keys[i]
           /\ IsArray(value)
                => Len(enc.datum.root.elems)
                     = Cardinality({i \in 1 .. Len(value.elems) : ~IsUndefined(value.elems[i])})

\* an object of three properties, the middle one Undefined, was encoded
C9_Witness ==
    /\ TreeWalked /\ enc.exc = NoException /\ IsObject(value) /\ value.kind = "Object"
    /\ Len(value.keys) = 3
    /\ IsUndefined(value.vals[2]) /\ ~IsUndefined(value.vals[1]) /\ ~IsUndefined(value.vals[3])
    /\ Len(enc.datum.root.pairs) = 2

\* C10: composite encode and composite decode release every reference to the
\* tuple descriptor they acquire, on a normal return and on every error
\* exit: after a call the descriptor's reference count is what it was before.
C10_TupdescBalanced ==
    (type.is_composite /\ pc \in {"decode", "done", "failed"})
        => tupdesc_refcount = InitialRefcount

\* C11: no error of a database routine called during a scalar, an array or a
\* json/jsonb conversion leaves the conversion as a raw database error: the
\* conversion ends normally or with a host-side exception.
C11_ErrorsCaught ==
    /\ pc \in {"decode", "done", "failed"} => enc.exc.type # "ereport"
    /\ dec.exc.type # "ereport"

\* C12: on every exit from ConvertObject, by a return or by an error raised
\* while the tree is built, the memory context that was current on entry is
\* current again and the conversion context has been deleted; a result it
\* returns was allocated in the entry context.
C12_NestedScope ==
    (pc \in {"decode", "done", "failed"} /\ conversion_context # "none")
        => /\ CurrentMemoryContext = "oldcontext"
           /\ conversion_context = "deleted"
           /\ enc.exc = NoException => enc.mcxt.ret = "oldcontext"

\* C13: the descriptor plv8_fill_type produces depends on the type identifier
\* and the catalog only: whatever the descriptor held before, its typid,
\* category, layout, is_composite and ext_array are those a zero-filled
\* descriptor gets for the same type identifier, and ext_array is none for a
\* type that is not one of the reserved domains.
C13_ResolveIsPure ==
    pc # "resolve"
        => /\ type = plv8_fill_type(ZeroType, typid)
           /\ typid \notin DOMAIN ExternalArrayNames => type.ext_array = "none"

\* C14: by default every int8 decodes to the BigInt equal to it; in the
\* graceful build an int8 within the int32 range decodes to the Number equal
\* to it and any other, the smallest and the largest included, to the String
\* of its decimal text, which with its terminator fits the 20 bytes of the
\* buffer it is formatted into.
C14_Int64Decode ==
    (Decoded /\ IsScalarType /\ type.typid = "INT8OID" /\ ~enc.isnull)
        => IF ~env.bigint_graceful
           THEN dec = ReturnValue(VBigInt(enc.datum.z))
           ELSE IF InSigned(enc.datum.z, 32)
           THEN dec = ReturnValue(VNum(DFromZ(enc.datum.z)))
           ELSE /\ dec = ReturnValue(VStr(ZToString(enc.datum.z)))
                /\ Len(ZToString(enc.datum.z)) + 1 <= 20

\* in the jsonb jb of the value v, every Date of v is a leaf: a string, or
\* null for a NaN Date
RECURSIVE DatesAreLeaves(_, _)
DatesAreLeaves(v, jb) ==
    CASE IsDate(v) -> jb.type = (IF DIsNaN(v.d) THEN "jbvNull" ELSE "jbvString")
      [] v.kind = "Array" ->
            /\ jb.type = "jbvArray"
            /\ Len(jb.elems) = Len(v.elems)
            /\ \A i \in 1 .. Len(v.elems) : DatesAreLeaves(v.elems[i], jb.elems[i])
      [] v.kind = "Object" ->
            /\ jb.type = "jbvObject"
            /\ \A i \in 1 .. Len(v.keys) :
                  \E p \in 1 .. Len(jb.pairs) :
                      /\ jb.pairs[p].key = v.keys[i]
                      /\ DatesAreLeaves(v.vals[i], jb.pairs[p].value)
      [] OTHER -> TRUE

\* C15: the tree walker encodes a Date as a leaf wherever it stands, as the
\* value of a property and as an element of an Array at any depth: the
\* string of a Date that is not NaN, null for a NaN Date, never an object.
C15_DateIsLeaf ==
    (TreeWalked /\ enc.exc = NoException)
        => DatesAreLeaves(WithoutUndefined(value), enc.datum.root)

\* the open containers after the pushes from i on, begun with the open
\* containers stack (each "object", "keyed" for an object whose last KEY has
\* no value yet, or "array"), or <<"bad">> when a push is out of place
RECURSIVE Nesting(_, _, _)
Nesting(pushes, i, stack) ==
    IF i > Len(pushes) THEN stack
    ELSE LET tok  == pushes[i].tok
             top  == IF stack = <<>> THEN "none" ELSE stack[Len(stack)]
             rest == SubSeq(stack, 1, Len(stack) - 1)
             into == IF top = "keyed" THEN Append(rest, "object") ELSE stack
         IN  CASE tok \in {"WJB_BEGIN_OBJECT", "WJB_BEGIN_ARRAY"} ->
                    IF top \in {"array", "keyed"} \/ (top = "none" /\ i = 1)
                    THEN Nesting(pushes, i + 1,
                                 Append(into, IF tok = "WJB_BEGIN_OBJECT" THEN "object"
                                              ELSE "array"))
                    ELSE <<"bad">>
               [] tok = "WJB_KEY" ->
                    IF top = "object" THEN Nesting(pushes, i + 1, Append(rest, "keyed"))
                    ELSE <<"bad">>
               [] tok = "WJB_VALUE" ->
                    IF top = "keyed" THEN Nesting(pushes, i + 1, into) ELSE <<"bad">>
               [] tok = "WJB_ELEM" ->
                    IF top = "array" THEN Nesting(pushes, i + 1, stack) ELSE <<"bad">>
               [] tok = "WJB_END_OBJECT" ->
                    IF top = "object" THEN Nesting(pushes, i + 1, rest) ELSE <<"bad">>
               [] tok = "WJB_END_ARRAY" ->
                    IF top = "array" THEN Nesting(pushes, i + 1, rest) ELSE <<"bad">>
               [] OTHER -> <<"bad">>

WellFormed(pushes) == Len(pushes) > 0 /\ Nesting(pushes, 1, <<>>) = <<>>

\* C16: the tokens the jsonb encode pushes are well formed for every value:
\* the BEGIN and END of objects and arrays are balanced and nested, an ELEM
\* is pushed only directly inside an array, and inside an object every KEY is
\* followed at once by one VALUE or one container, before the next KEY or
\* the END_OBJECT.
C16_TokensWellFormed ==
    (Encoded /\ typid = "JSONBOID" /\ env.jsonb_direct /\ conversion_context # "none")
        => WellFormed(ConvertObjectPushes(value))

\* the data_bytes ToArrayValue passes to CreateExternalArray for the array
\* it decodes
DataBytes == ARR_SIZE(enc.datum) - ARR_OVERHEAD_NONULLS(1)

\* C17: for every array the external-buffer decode accepts (no null bitmap,
\* at most one dimension), the empty array of no dimension included, the byte
\* length passed to the typed array's constructor is not negative and is the
\* number of elements times the element size.
C17_ExternalByteLength ==
    (Decoded /\ type.ext_array # "none" /\ ~enc.isnull
             /\ ~ARR_HASNULL(enc.datum) /\ ARR_NDIM(enc.datum) <= 1)
        => /\ DataBytes >= 0
           /\ DataBytes = ArrayGetNItems(enc.datum) * ElementSize(type.ext_array)

\* dateToEpochMillis(n): the first millisecond of day n, n counted from
\* 2000-01-01
DayStart(n) ==
    ZMulList(ZAdd(n, ZInt(POSTGRES_EPOCH_JDATE - UNIX_EPOCH_JDATE)), <<864, 100, 1000>>)

\* C18: a Date of an integer number m of milliseconds, before or after
\* 2000-01-01, is encoded as the date n of the day that contains it:
\* dateToEpochMillis(n) <= m < dateToEpochMillis(n + 1).
C18_ContainingDay ==
    (Encoded /\ typid = "DATEOID" /\ IsDate(value) /\ ~DIsNaN(value.d)
             /\ DIsInteger(value.d))
        => /\ enc.exc = NoException
           /\ ZLeq(DayStart(enc.datum.z), DTrunc(value.d))
           /\ ZLess(DTrunc(value.d), DayStart(ZAdd(enc.datum.z, ZInt(1))))

\* C19: a typed array that was decoded from a database array, written to
\* and encoded under the array type gives a database array whose packed
\* element bytes are the bytes the typed array holds when it is encoded, not
\* the bytes of the array it was decoded from.
C19_BufferContents ==
    pc = "returned"
        => /\ enc.exc = NoException
           /\ ~enc.isnull
           /\ ARR_DATA_PTR(enc.datum) = value.bytes

====
